---- MODULE Spec2Model ----
(***************************************************************************)
(* Retrieval core of the PDF question-answering service: the in-memory     *)
(* vector store (lib/vectorstore/memory.ts), the store facade              *)
(* (lib/vectorstore/index.ts), the retriever (lib/retriever.ts) and the    *)
(* chat route (app/api/chat/route.ts).                                     *)
(*                                                                         *)
(* Numbers.  Similarity scores are IEEE doubles in the code.  The model    *)
(* holds a score s as the integer s * One.  The vectors of the model have  *)
(* integral Euclidean norms 0, 1 or 2, so that Math.sqrt, the product of   *)
(* the norms and the quotient dot / denominator are all exact in double    *)
(* arithmetic (every cosine is one of -1, -0.5, 0, 0.5, 1), and the        *)
(* lambdas of the model are 0, 0.5 and 1, so that the MMR score is exact   *)
(* too: on these inputs the integer computation below and the code's       *)
(* floating point computation agree digit for digit.                       *)
(***************************************************************************)
EXTENDS Integers, Sequences, FiniteSets, TLC

\* The number 1.0 (scores are held in hundredths).
One == 100

\* ---------------------------------------------------------------- bounds
\* Most (chunk, vector) pairs in one document of the query specification.
MaxChunks == 3
\* Largest topK a caller passes.
MaxTopK == 3
\* Most chunks in one upsert call of the store specification.
MaxUpsert == 2
\* Most text deltas the generation collaborator streams in one answer.
MaxDeltas == 2

\* ------------------------------------------------------- program constants
\* query / retrieve: topK = 8, scoreThreshold = 0.2, mmrLambda = 0.5,
\* candidateMultiplier = 3.
DefaultTopK == 8
DefaultScoreThreshold == 20
DefaultLambda == 50
DefaultCandidateMultiplier == 3

\* ---------------------------------------------------------------- vectors
E1 == <<1, 0, 0, 0>>
Ones == <<1, 1, 1, 1>>
OnesButLast == <<1, 1, 1, -1>>
NegE2 == <<0, -1, 0, 0>>
Zero == <<0, 0, 0, 0>>
\* A vector of another dimension than the rest (a contract violation).
Short == <<1, 0>>

Vectors == {E1, Ones, OnesButLast, NegE2, Zero, Short}

DocIds == {"d1", "d2"}

\* The chunk with identifier i made for document d (types.ts Chunk; the text
\* and the offsets play no part in the store).
Chunk(d, i) == [id |-> i, docId |-> d]

Min(a, b) == IF a <= b THEN a ELSE b
MaxOf(S) == CHOOSE x \in S : \A y \in S : y <= x

\* ------------------------------------------------------ cosineSimilarity
RECURSIVE DotUpTo(_, _, _)
DotUpTo(a, b, n) == IF n = 0 THEN 0 ELSE DotUpTo(a, b, n - 1) + a[n] * b[n]

\* A number of the program is a multiple of 1/One in the model (One stands
\* for 1.0), the components of a vector and their sums of products being
\* whole.  An operation that gives a number gives the multiple of 1/One
\* nearest to the true value, as the program's operations give the nearest
\* double: a root that is not whole is not exact, at a coarser grain than in
\* the program.
RoundDiv(a, b) == (2 * a + b) \div (2 * b)

\* Math.sqrt(n), n whole: exact when n is a square.
Sqrt(n) ==
  IF \E r \in 0..n : r * r = n
  THEN One * (CHOOSE r \in 0..n : r * r = n)
  ELSE CHOOSE r \in One..(n * One) :
         (2 * r - 1) * (2 * r - 1) < 4 * n * One * One
           /\ 4 * n * One * One < (2 * r + 1) * (2 * r + 1)

\* if (a.length !== b.length) throw new Error(...)
cosineThrows(a, b) == Len(a) # Len(b)

\* The value returned when the lengths agree.
cosineSimilarity(a, b) ==
  LET dotProduct == DotUpTo(a, b, Len(a))
      normA == DotUpTo(a, a, Len(a))
      normB == DotUpTo(b, b, Len(a))
      denominator == RoundDiv(Sqrt(normA) * Sqrt(normB), One)
  IN  IF denominator = 0 THEN 0 ELSE RoundDiv(dotProduct * One * One, denominator)

\* ------------------------------------------------------------ memory store
\* Array.prototype.sort((a, b) => b.score - a.score): stable, descending.
RECURSIVE sortByScoreDesc(_)
sortByScoreDesc(items) ==
  IF Len(items) <= 1 THEN items
  ELSE LET rest == sortByScoreDesc(SubSeq(items, 1, Len(items) - 1))
           x == items[Len(items)]
           k == Cardinality({i \in 1..Len(rest) : rest[i].score >= x.score})
       IN  SubSeq(rest, 1, k) \o <<x>> \o SubSeq(rest, k + 1, Len(rest))

\* slice(0, n)
slice(items, n) == SubSeq(items, 1, Min(n, Len(items)))

\* docStore.vectors.map(({chunk, vector}) => ({chunk, vector, score}))
scoreAll(docStore, queryVector) ==
  [i \in 1..Len(docStore.vectors) |->
     [chunk |-> docStore.vectors[i].chunk,
      vector |-> docStore.vectors[i].vector,
      score |-> cosineSimilarity(queryVector, docStore.vectors[i].vector)]]

\* cosineSimilarity throws for some stored vector.
scoreThrows(docStore, queryVector) ==
  \E i \in 1..Len(docStore.vectors) :
     cosineThrows(queryVector, docStore.vectors[i].vector)

EmptyResult == [chunks |-> <<>>, scores |-> <<>>]

toResult(items) ==
  [chunks |-> [i \in 1..Len(items) |-> items[i].chunk],
   scores |-> [i \in 1..Len(items) |-> items[i].score]]

\* Mutant: the filter drops the entries whose score equals the threshold.
filterByThreshold_strict(scored, scoreThreshold) ==
  SelectSeq(scored, LAMBDA item : item.score > scoreThreshold)

\* .filter((item) => item.score >= scoreThreshold)
filterByThreshold(scored, scoreThreshold) ==
  SelectSeq(scored, LAMBDA item : item.score >= scoreThreshold)

\* memory.query on a document that exists: filter, sort, slice.
queryItems(docStore, queryVector, topK, scoreThreshold) ==
  slice(sortByScoreDesc(filterByThreshold(scoreAll(docStore, queryVector),
                                          scoreThreshold)), topK)

\* -Infinity: below every MMR score (|mmrScore| <= One * One).
NegInfinity == 0 - (One * One) - 1

\* Mutant: the last of the candidates with the best MMR score wins (>=).
RECURSIVE mmrBest_lastWins(_, _, _, _, _, _)
mmrBest_lastWins(remaining, selected, lambda, i, bestIdx, bestScore) ==
  IF i > Len(remaining) THEN bestIdx
  ELSE LET candidate == remaining[i]
           maxSimilarity ==
             MaxOf({cosineSimilarity(candidate.vector, selected[j].vector) :
                      j \in 1..Len(selected)})
           mmrScore == lambda * candidate.score - (One - lambda) * maxSimilarity
       IN  IF mmrScore >= bestScore
           THEN mmrBest_lastWins(remaining, selected, lambda, i + 1, i, mmrScore)
           ELSE mmrBest_lastWins(remaining, selected, lambda, i + 1, bestIdx, bestScore)

\* The for loop over remaining: the index of the best MMR score.
RECURSIVE mmrBest(_, _, _, _, _, _)
mmrBest(remaining, selected, lambda, i, bestIdx, bestScore) ==
  IF i > Len(remaining) THEN bestIdx
  ELSE LET candidate == remaining[i]
           relevance == candidate.score
           maxSimilarity ==
             MaxOf({cosineSimilarity(candidate.vector, selected[j].vector) :
                      j \in 1..Len(selected)})
           mmrScore == lambda * relevance - (One - lambda) * maxSimilarity
       IN  IF mmrScore > bestScore
           THEN mmrBest(remaining, selected, lambda, i + 1, i, mmrScore)
           ELSE mmrBest(remaining, selected, lambda, i + 1, bestIdx, bestScore)

\* remaining.splice(bestIdx, 1)
splice(items, idx) == SubSeq(items, 1, idx - 1) \o SubSeq(items, idx + 1, Len(items))

\* while (selected.length < topK && remaining.length > 0) { ... }
RECURSIVE mmrLoop(_, _, _, _)
mmrLoop(selected, remaining, topK, lambda) ==
  IF Len(selected) < topK /\ Len(remaining) > 0
  THEN LET bestIdx == mmrBest(remaining, selected, lambda, 1, 1, NegInfinity)
       IN  mmrLoop(Append(selected, remaining[bestIdx]),
                   splice(remaining, bestIdx), topK, lambda)
  ELSE selected

\* memory.queryWithMMR on a document that exists: the selected items in the
\* order the loop selected them (before the final sort).
mmrSelect(docStore, queryVector, topK, lambda, candidateMultiplier) ==
  LET numCandidates == Min(topK * candidateMultiplier, Len(docStore.vectors))
      candidates == slice(sortByScoreDesc(scoreAll(docStore, queryVector)),
                          numCandidates)
  IN  IF Len(candidates) = 0 THEN <<>>
      ELSE mmrLoop(<<candidates[1]>>, Tail(candidates), topK, lambda)

\* Mutant: the selected items are returned in the order of selection.
mmrSorted_unsorted(selected) == selected

\* selected.sort((a, b) => b.score - a.score)
mmrSorted(selected) == sortByScoreDesc(selected)

\* ------------------------------------------------------------------ state
VARIABLES
  store,  \* memory.ts: const store = new Map<DocId, DocStore>()
  ret,    \* the call that returned last, with its arguments and what it returned
  hist,   \* per docId: the arguments of the last upsert that completed, if any
  retr,   \* the retrieve call in progress (lib/retriever.ts)
  chat,   \* the chat request in progress (app/api/chat/route.ts)
  emb,    \* the embedText or embedTexts call in progress (lib/embeddings.ts)
  chk,    \* the chunkPages call: its arguments and what it returned (lib/chunk.ts)
  cit,    \* the extractCitations call: its arguments and what it returned (lib/llm.ts)
  cos,    \* the cosineSimilarity call: its arguments and its outcome (lib/embeddings.ts)
  client, \* the Chat component during one handleSubmit (components/Chat.tsx)
  upl     \* the upload request in progress (app/api/upload/route.ts)

vars == <<store, ret, hist, retr, chat, emb, chk, cit, cos, client, upl>>

\* vectors[i] of an index past the end of the array.
Undefined == <<>>

\* new Map()
EmptyStore == [k \in {} |-> 0]

\* store.has(docId)
hasDoc(st, docId) == docId \in DOMAIN st

\* Mutant: the length check is missing.
upsertThrows_never(chunks, vectors) == FALSE

\* if (chunks.length !== vectors.length) throw new Error(...)
upsertThrows(chunks, vectors) == Len(chunks) # Len(vectors)

\* The DocStore built by upsert (createdAt is read by getDocInfo alone and is
\* left out).
newDocStore(chunks, vectors) ==
  [vectors |-> [i \in 1..Len(chunks) |->
                  [chunk |-> chunks[i],
                   vector |-> IF i <= Len(vectors) THEN vectors[i] ELSE Undefined]]]

\* store.set(docId, docStore)
mapSet(st, docId, docStore) ==
  [k \in DOMAIN st \cup {docId} |-> IF k = docId THEN docStore ELSE st[k]]

\* Mutant: the entry is kept.
mapDelete_keeps(st, docId) == st

\* store.delete(docId)
mapDelete(st, docId) == [k \in DOMAIN st \ {docId} |-> st[k]]

\* Mutant: the new pairs are added to the pairs the document already has.
upsert_append(st, docId, chunks, vectors) ==
  mapSet(st, docId,
         [vectors |-> (IF hasDoc(st, docId) THEN st[docId].vectors ELSE <<>>)
                        \o newDocStore(chunks, vectors).vectors])

\* The store after memory.upsert got past its length check.
upsert(st, docId, chunks, vectors) ==
  mapSet(st, docId, newDocStore(chunks, vectors))

Returned(items, sel) ==
  LET r == toResult(items)
  IN  [outcome |-> "ok", thrownBy |-> "", chunks |-> r.chunks, scores |-> r.scores,
       selected |-> sel]
\* The call threw; thrownBy names the function that threw.
Thrown(by) ==
  [outcome |-> "throw", thrownBy |-> by, chunks |-> <<>>, scores |-> <<>>,
   selected |-> <<>>]

\* Mutant: the check for an unknown document is missing (docStore.vectors of
\* undefined is a TypeError).
query_unguarded(st, docId, queryVector, topK, scoreThreshold) ==
  IF ~hasDoc(st, docId) THEN Thrown("query")
  ELSE IF scoreThrows(st[docId], queryVector) THEN Thrown("cosineSimilarity")
  ELSE Returned(queryItems(st[docId], queryVector, topK, scoreThreshold), <<>>)

\* memory.query
query(st, docId, queryVector, topK, scoreThreshold) ==
  IF ~hasDoc(st, docId) THEN Returned(<<>>, <<>>)
  ELSE IF scoreThrows(st[docId], queryVector) THEN Thrown("cosineSimilarity")
  ELSE Returned(queryItems(st[docId], queryVector, topK, scoreThreshold), <<>>)

\* memory.queryWithMMR; selected records the order of selection.
queryWithMMR(st, docId, queryVector, topK, lambda, candidateMultiplier) ==
  IF ~hasDoc(st, docId) THEN Returned(<<>>, <<>>)
  ELSE IF scoreThrows(st[docId], queryVector) THEN Thrown("cosineSimilarity")
  ELSE LET selected == mmrSelect(st[docId], queryVector, topK, lambda,
                                 candidateMultiplier)
       IN  Returned(mmrSorted(selected), selected)

\* ------------------------------------------------------------ store facade
\* lib/vectorstore/index.ts with PINECONE_API_KEY / PINECONE_INDEX unset:
\* getStoreType() is 'memory' and every call goes to the memory store.
vectorStoreQuery(st, docId, queryVector, topK, scoreThreshold) ==
  query(st, docId, queryVector, topK, scoreThreshold)

vectorStoreQueryWithMMR(st, docId, queryVector, topK, lambda) ==
  queryWithMMR(st, docId, queryVector, topK, lambda, DefaultCandidateMultiplier)

\* ------------------------------------------------------ records of calls
\* What is kept of a call that returned: its name and arguments, what it
\* returned or that it threw, the functions it called in order (retrieve),
\* and, for a search, hasDoc and deleteDoc, whether the document was upserted,
\* deleted or never seen when the call was made.
Blank ==
  [op |-> "none", docId |-> "", queryVector |-> <<>>, topK |-> 0,
   scoreThreshold |-> 0, lambda |-> 0, candidateMultiplier |-> 0,
   useMMR |-> FALSE, nChunks |-> 0, nVectors |-> 0, outcome |-> "ok",
   thrownBy |-> "", chunks |-> <<>>, scores |-> <<>>, selected |-> <<>>,
   value |-> FALSE, calls |-> <<>>, docState |-> "never"]

\* The fields of o, and those of r that o does not have.
With(r, o) ==
  [f \in DOMAIN r \cup DOMAIN o |-> IF f \in DOMAIN o THEN o[f] ELSE r[f]]
Call(o) == With(Blank, o)
NoCall == Blank

\* The history of a docId: never upserted, upserted (with the arguments of
\* the last upsert that completed, and whether it replaced an entry of other
\* contents), deleted.
Never == [state |-> "never", chunks |-> <<>>, vectors |-> <<>>, replaced |-> FALSE]
Deleted == [state |-> "deleted", chunks |-> <<>>, vectors |-> <<>>, replaced |-> FALSE]
Upserted(st, docId, chunks, vectors) ==
  [state |-> "upserted", chunks |-> chunks, vectors |-> vectors,
   replaced |-> hasDoc(st, docId) /\ st[docId] # newDocStore(chunks, vectors)]

RetrIdle ==
  [pc |-> "idle", caller |-> "", docId |-> "", topK |-> 0, scoreThreshold |-> 0,
   useMMR |-> FALSE, mmrLambda |-> 0, calls |-> <<>>, docState |-> "never"]

\* A chat request: where the handler stands, the validated body, what hasDoc
\* answered, the HTTP status of the response (0: none yet), the events
\* enqueued on the response stream, whether the stream was closed, the text
\* deltas streamed, how the generation went, the retrieved chunks, the kind of
\* body of the request, the collaborators the handler called, in order, and
\* the number of chunks retrieve returned (-1: it did not return).
ChatIdle ==
  [pc |-> "idle", docId |-> "", topK |-> 0, docExists |-> FALSE, status |-> 0,
   events |-> <<>>, closed |-> FALSE, deltas |-> 0, gen |-> "none",
   chunks |-> <<>>, body |-> "", calls |-> <<>>, retrieved |-> 0 - 1]

\* An embedding call: the function, where it stands, its texts, the start of
\* the batch (i of the loop), the attempt, the results pushed so far, the
\* attempts and waits made in order, and how the call ended.
EmbIdle ==
  [op |-> "none", pc |-> "idle", texts |-> <<>>, i |-> 0, attempt |-> 0,
   results |-> <<>>, log |-> <<>>, outcome |-> "none", value |-> <<>>]

\* No chunkPages call yet.
ChkIdle ==
  [pc |-> "idle", pages |-> <<>>, docId |-> "", options |-> <<>>,
   outcome |-> "none", chunks |-> <<>>]

\* No extractCitations call yet.
CitIdle == [pc |-> "idle"]

\* No cosineSimilarity call yet.
CosIdle == [pc |-> "idle"]

\* The Chat component before a submit: no message, not loading, no error
\* banner (useState initial values).  sent keeps what the server sent,
\* splitInLine whether a read has ended inside a data line.
ClientIdle ==
  [pc |-> "idle", bytes |-> <<>>, sent |-> <<>>, splitInLine |-> FALSE,
   fullContent |-> <<>>, citations |-> "", content |-> <<>>, msgCitations |-> "",
   isStreaming |-> FALSE, isLoading |-> FALSE, error |-> "", finalized |-> FALSE]

\* No upload request yet.
UplIdle ==
  [pc |-> "idle", file |-> "", pages |-> <<>>, docId |-> "", chunks |-> <<>>,
   vectors |-> <<>>, status |-> 0, error |-> "", chunkCount |-> 0,
   before |-> EmptyStore, steps |-> <<>>]

\* ------------------------------------------------------- store operations
\* export async function upsert(docId, chunks, vectors)
Upsert(docId, chunks, vectors) ==
  LET args == [op |-> "upsert", docId |-> docId, nChunks |-> Len(chunks),
               nVectors |-> Len(vectors)]
  IN
  /\ IF upsertThrows(chunks, vectors)
     THEN /\ ret' = Call(With(Thrown("upsert"), args))
          /\ UNCHANGED <<store, hist>>
     ELSE /\ store' = upsert(store, docId, chunks, vectors)
          /\ hist' = [hist EXCEPT ![docId] = Upserted(store, docId, chunks, vectors)]
          /\ ret' = Call(args)
  /\ UNCHANGED <<emb, chk, retr, chat, cit, cos, client, upl>>

\* export async function query(docId, queryVector, topK, scoreThreshold)
Query(docId, queryVector, topK, scoreThreshold) ==
  /\ ret' = Call(With(query(store, docId, queryVector, topK, scoreThreshold),
                      [op |-> "query", docId |-> docId, queryVector |-> queryVector,
                       topK |-> topK, scoreThreshold |-> scoreThreshold,
                       docState |-> hist[docId].state]))
  /\ UNCHANGED <<emb, chk, store, hist, retr, chat, cit, cos, client, upl>>

\* export async function queryWithMMR(docId, queryVector, topK, lambda, candidateMultiplier)
QueryWithMMR(docId, queryVector, topK, lambda, candidateMultiplier) ==
  /\ ret' = Call(With(queryWithMMR(store, docId, queryVector, topK, lambda,
                                   candidateMultiplier),
                      [op |-> "queryWithMMR", docId |-> docId,
                       queryVector |-> queryVector, topK |-> topK, lambda |-> lambda,
                       candidateMultiplier |-> candidateMultiplier, useMMR |-> TRUE,
                       docState |-> hist[docId].state]))
  /\ UNCHANGED <<emb, chk, store, hist, retr, chat, cit, cos, client, upl>>

\* export async function deleteDoc(docId)
DeleteDoc(docId) ==
  /\ store' = mapDelete(store, docId)
  /\ hist' = [hist EXCEPT ![docId] = IF @.state = "never" THEN @ ELSE Deleted]
  /\ ret' = Call([op |-> "deleteDoc", docId |-> docId, value |-> hasDoc(store, docId),
                  docState |-> hist[docId].state])
  /\ UNCHANGED <<emb, chk, retr, chat, cit, cos, client, upl>>

\* export async function hasDoc(docId)
HasDoc(docId) ==
  /\ ret' = Call([op |-> "hasDoc", docId |-> docId, value |-> hasDoc(store, docId),
                  docState |-> hist[docId].state])
  /\ UNCHANGED <<emb, chk, store, hist, retr, chat, cit, cos, client, upl>>

\* export async function clearAll()
ClearAll ==
  /\ store' = EmptyStore
  /\ hist' = [d \in DocIds |-> IF hist[d].state = "never" THEN hist[d] ELSE Deleted]
  /\ ret' = Call([op |-> "clearAll"])
  /\ UNCHANGED <<emb, chk, retr, chat, cit, cos, client, upl>>

\* ---------------------------------------------------------------- chat route
\* Mutant: a failure of the generation closes the stream without an event.
streamError_silent(events) == events

\* catch (error) { ... controller.enqueue(errorDelta) }
streamError(events) == Append(events, "error")

\* Mutant: the generation is asked whatever was retrieved.
chatAfterRetrieve_alwaysAsks(c, call) ==
  IF call.outcome = "throw"
  THEN [c EXCEPT !.pc = "done", !.status = 500]
  ELSE [c EXCEPT !.pc = "streaming", !.status = 200, !.chunks = call.chunks,
                 !.retrieved = Len(call.chunks),
                 !.gen = "running", !.calls = Append(@, "askWithContext")]

\* The handler after `await retrieve(docId, question, { topK })`.
chatAfterRetrieve(c, call) ==
  IF call.outcome = "throw"
  THEN \* the outer catch: a JSON response, status 500
       [c EXCEPT !.pc = "done", !.status = 500]
  ELSE IF Len(call.chunks) = 0
  THEN \* the stream of the "no relevant information" answer
       [c EXCEPT !.pc = "done", !.status = 200, !.events = <<"text", "done">>,
                 !.closed = TRUE, !.retrieved = 0]
  ELSE [c EXCEPT !.pc = "streaming", !.status = 200, !.chunks = call.chunks,
                 !.retrieved = Len(call.chunks),
                 !.gen = "running", !.calls = Append(@, "askWithContext")]

\* ---------------------------------------------------------------- retriever
\* Mutant: the dispatch on useMMR is inverted.
retrieveSearch_inverted(st, r, queryVector) ==
  IF ~r.useMMR
  THEN [result |-> vectorStoreQueryWithMMR(st, r.docId, queryVector, r.topK,
                                           r.mmrLambda),
        calls |-> <<"queryWithMMR">>]
  ELSE [result |-> vectorStoreQuery(st, r.docId, queryVector, r.topK,
                                    r.scoreThreshold),
        calls |-> <<"query">>]

\* if (opts.useMMR) { queryWithMMR(...) } else { query(...) }
retrieveSearch(st, r, queryVector) ==
  IF r.useMMR
  THEN [result |-> vectorStoreQueryWithMMR(st, r.docId, queryVector, r.topK,
                                           r.mmrLambda),
        calls |-> <<"queryWithMMR">>]
  ELSE [result |-> vectorStoreQuery(st, r.docId, queryVector, r.topK,
                                    r.scoreThreshold),
        calls |-> <<"query">>]

\* The arguments of the retrieve call r, for the record of the call.
retrieveArgs(r) ==
  [op |-> "retrieve", docId |-> r.docId, topK |-> r.topK,
   scoreThreshold |-> r.scoreThreshold, useMMR |-> r.useMMR,
   lambda |-> r.mmrLambda, docState |-> r.docState]

\* retrieve returns (or throws) to its caller.
RetrieveReturns(caller, call) ==
  /\ ret' = call
  /\ retr' = RetrIdle
  /\ chat' = IF caller = "chat" THEN chatAfterRetrieve(chat, call) ELSE chat

\* retrieve(docId, query, options) up to `await embedQuery(query)`; hasDoc of
\* the memory store answers within the call.
RetrieveCall(caller, docId, topK, scoreThreshold, useMMR, mmrLambda) ==
  /\ retr.pc = "idle"
  /\ caller = "chat" => chat.pc = "checked" /\ chat.docExists
  /\ LET r == [pc |-> "embedQuery", caller |-> caller, docId |-> docId,
               topK |-> topK, scoreThreshold |-> scoreThreshold,
               useMMR |-> useMMR, mmrLambda |-> mmrLambda,
               calls |-> <<"hasDoc">>, docState |-> hist[docId].state]
     IN  IF ~hasDoc(store, docId)
         THEN /\ ret' = Call(With(retrieveArgs(r), [calls |-> r.calls, value |-> FALSE]))
              /\ retr' = RetrIdle
              /\ chat' = IF caller = "chat"
                         THEN chatAfterRetrieve([chat EXCEPT !.calls = Append(@, "retrieve")],
                                                ret')
                         ELSE chat
         ELSE /\ retr' = [r EXCEPT !.calls = Append(@, "embedQuery")]
              /\ chat' = IF caller = "chat"
                         THEN [chat EXCEPT !.pc = "retrieving",
                                           !.calls = Append(@, "retrieve")]
                         ELSE chat
              /\ UNCHANGED ret
  /\ UNCHANGED <<emb, chk, store, hist, cit, cos, client, upl>>

\* embedQuery answered queryVector: the search, and the return.
RetrieveEmbedded(queryVector) ==
  /\ retr.pc = "embedQuery"
  /\ LET s == retrieveSearch(store, retr, queryVector)
     IN  RetrieveReturns(retr.caller,
           Call(With(With(s.result, retrieveArgs(retr)),
                     [queryVector |-> queryVector, value |-> TRUE,
                      calls |-> retr.calls \o s.calls])))
  /\ UNCHANGED <<emb, chk, store, hist, cit, cos, client, upl>>

\* embedQuery failed: retrieve has no try, the error goes to the caller.
RetrieveEmbedFailed ==
  /\ retr.pc = "embedQuery"
  /\ RetrieveReturns(retr.caller,
       Call(With(With(Thrown("embedQuery"), retrieveArgs(retr)),
                 [value |-> TRUE, calls |-> retr.calls])))
  /\ UNCHANGED <<emb, chk, store, hist, cit, cos, client, upl>>

\* ---------------------------------------------------- the store specification
\* The store and the retriever under every interleaving of their calls.  Two
\* uploads, with chunks and vectors of their own (similarity 1 and 0 to the
\* query vector E1); the other query vector is a dimension mismatch.
Uploads == {1, 2}
UploadVector(g) == IF g = 1 THEN E1 ELSE NegE2
CallVectors == {E1, Short}
CallTopKs == {1, DefaultTopK}

\* The chunks of upload g of document d: n chunks with fresh identifiers.
UploadChunks(d, g, n) == [k \in 1..n |-> Chunk(d, 10 * g + k)]
\* Upload 1 is of one chunk, upload 2 of MaxUpsert chunks.
UploadSize(g) == IF g = 1 THEN 1 ELSE MaxUpsert

Init ==
  /\ store = EmptyStore
  /\ ret = NoCall
  /\ hist = [d \in DocIds |-> Never]
  /\ retr = RetrIdle
  /\ chat = ChatIdle
  /\ emb = EmbIdle
  /\ chk = ChkIdle
  /\ cit = CitIdle
  /\ cos = CosIdle
  /\ client = ClientIdle
  /\ upl = UplIdle

Next ==
  \/ \E d \in DocIds, g \in Uploads, m \in 0..MaxUpsert :
       Upsert(d, UploadChunks(d, g, UploadSize(g)), [k \in 1..m |-> UploadVector(g)])
  \/ \E d \in DocIds, q \in CallVectors, topK \in CallTopKs :
       Query(d, q, topK, DefaultScoreThreshold)
  \/ \E d \in DocIds, q \in CallVectors, topK \in CallTopKs :
       QueryWithMMR(d, q, topK, DefaultLambda, DefaultCandidateMultiplier)
  \/ \E d \in DocIds : DeleteDoc(d)
  \/ \E d \in DocIds : HasDoc(d)
  \/ ClearAll
  \/ \E d \in DocIds, topK \in CallTopKs, useMMR \in BOOLEAN :
       RetrieveCall("api", d, topK, DefaultScoreThreshold, useMMR, DefaultLambda)
  \/ \E q \in CallVectors : RetrieveEmbedded(q)
  \/ RetrieveEmbedFailed

Spec == Init /\ [][Next]_vars

\* ------------------------------------------------------ chat route, steps
\* POST up to `await vectorStore.hasDoc(docId)`: the body is read and
\* validated; hasDoc of the memory store answers within the call.
ChatPost(body, docId, topK) ==
  /\ chat.pc \in {"idle", "done"}
  /\ chat' = IF body = "unparsable"
             THEN [ChatIdle EXCEPT !.pc = "done", !.status = 500, !.body = body]
             ELSE IF body = "invalid"
             THEN [ChatIdle EXCEPT !.pc = "done", !.status = 400, !.body = body]
             ELSE [ChatIdle EXCEPT !.pc = "checked", !.docId = docId,
                                   !.topK = topK, !.body = body,
                                   !.calls = <<"hasDoc">>,
                                   !.docExists = hasDoc(store, docId)]
  /\ UNCHANGED <<emb, chk, store, ret, hist, retr, cit, cos, client, upl>>

\* if (!docExists) return new Response(..., { status: 404 })
ChatNotFound ==
  /\ chat.pc = "checked"
  /\ ~chat.docExists
  /\ chat' = [chat EXCEPT !.pc = "done", !.status = 404]
  /\ UNCHANGED <<emb, chk, store, ret, hist, retr, cit, cos, client, upl>>

\* askWithContext yields a text delta; an empty chunkText yields nothing.
GenDelta(nonEmpty) ==
  /\ chat.pc = "streaming"
  /\ chat.deltas < MaxDeltas
  /\ chat' = [chat EXCEPT !.deltas = @ + 1,
                          !.events = IF nonEmpty THEN Append(@, "text") ELSE @]
  /\ UNCHANGED <<emb, chk, store, ret, hist, retr, cit, cos, client, upl>>

\* getModel, generateContentStream or the stream throws: askWithContext
\* throws, the route enqueues the error event and, in finally, closes.
GenFails ==
  /\ chat.pc = "streaming"
  /\ chat' = [chat EXCEPT !.pc = "done", !.gen = "failed",
                          !.events = streamError(@), !.closed = TRUE]
  /\ UNCHANGED <<emb, chk, store, ret, hist, retr, cit, cos, client, upl>>

\* The stream ends: askWithContext yields { done: true, citations }.
GenEnds ==
  /\ chat.pc = "streaming"
  /\ chat' = [chat EXCEPT !.pc = "finishing", !.gen = "completed",
                          !.events = Append(@, "done")]
  /\ UNCHANGED <<emb, chk, store, ret, hist, retr, cit, cos, client, upl>>

\* The generator returns, the for await loop ends: finally { controller.close() }
ChatStreamCloses ==
  /\ chat.pc = "finishing"
  /\ chat' = [chat EXCEPT !.pc = "done", !.closed = TRUE]
  /\ UNCHANGED <<emb, chk, store, ret, hist, retr, cit, cos, client, upl>>

\* ----------------------------------------------------- the chat specification
\* Chat requests one after another, with uploads and deletions in between
\* the steps of a request.
Bodies == {"unparsable", "invalid", "valid"}

NextChat ==
  \/ \E b \in Bodies, d \in DocIds, topK \in CallTopKs : ChatPost(b, d, topK)
  \/ ChatNotFound
  \/ RetrieveCall("chat", chat.docId, chat.topK, DefaultScoreThreshold, TRUE,
                  DefaultLambda)
  \/ \E q \in CallVectors : RetrieveEmbedded(q)
  \/ RetrieveEmbedFailed
  \/ \E nonEmpty \in BOOLEAN : GenDelta(nonEmpty)
  \/ GenFails
  \/ GenEnds
  \/ ChatStreamCloses
  \/ \E d \in DocIds, g \in Uploads :
       Upsert(d, UploadChunks(d, g, 1), <<UploadVector(g)>>)
  \/ \E d \in DocIds : DeleteDoc(d)

SpecChat == Init /\ [][NextChat]_vars

\* C3: an event stream of the chat endpoint has one terminal event (done or
\* error), and it is its last event: nothing is enqueued after it, the stream
\* is not closed without it, it is error when the generation failed and done
\* when the generation completed.
C3_OneTerminalEvent ==
  LET ev == chat.events
      n == Len(ev)
  IN  /\ \A i \in 1..n : ev[i] \in {"done", "error"} => i = n
      /\ chat.closed => (n >= 1 /\ ev[n] \in {"done", "error"})
      /\ chat.gen = "failed" => (chat.closed /\ ev[n] = "error")
      /\ (chat.closed /\ chat.gen = "completed") => ev[n] = "done"

\* The generation failed after a text delta: text, then error, then closed.
C3_Witness ==
  /\ chat.closed
  /\ chat.gen = "failed"
  /\ chat.events = <<"text", "error">>

\* C16: the chat handler calls the generation only after a valid body, a
\* hasDoc that answered true and a retrieval that returned a chunk.  A body
\* that fails validation is answered 400 and the store is not consulted; an
\* unknown docId is answered 404 and retrieve is not called; a retrieval of
\* no chunk is answered by the stream text, done, without the generation.
C16_GenerationGuarded ==
  /\ (chat.gen # "none") <=>
       (chat.calls = <<"hasDoc", "retrieve", "askWithContext">>)
  /\ chat.gen # "none" =>
       (chat.body = "valid" /\ chat.docExists /\ chat.retrieved >= 1)
  /\ chat.body = "invalid" => (chat.status = 400 /\ chat.calls = <<>>)
  /\ (chat.body = "valid" /\ ~chat.docExists /\ chat.pc = "done") =>
       (chat.status = 404 /\ chat.calls = <<"hasDoc">>)
  /\ chat.status = 404 => (~chat.docExists /\ chat.body = "valid")
  /\ chat.retrieved = 0 =>
       /\ chat.status = 200
       /\ chat.events = <<"text", "done">>
       /\ chat.closed
       /\ chat.gen = "none"
       /\ chat.calls = <<"hasDoc", "retrieve">>

\* A request for a stored document whose retrieval returned no chunk (the
\* document was deleted after hasDoc answered).
C16_Witness ==
  /\ chat.pc = "done"
  /\ chat.docExists
  /\ chat.retrieved = 0
  /\ chat.events = <<"text", "done">>
  /\ chat.calls = <<"hasDoc", "retrieve">>

\* ------------------------------------------- properties of store and retriever
\* C1: a query or queryWithMMR result holds only (chunk, vector) pairs of the
\* last upsert of its document that completed: every returned chunk is a
\* chunk of that upsert and its score is the similarity of the vector that
\* upsert paired with it (none of an earlier upsert, none mixed).
C1_ResultOfOneUpsert ==
  (ret.op \in {"query", "queryWithMMR"} /\ ret.outcome = "ok") =>
    LET h == hist[ret.docId] IN
    \A k \in 1..Len(ret.chunks) :
       \E i \in 1..Len(h.chunks) :
          /\ h.chunks[i] = ret.chunks[k]
          /\ cosineSimilarity(ret.queryVector, h.vectors[i]) = ret.scores[k]

\* A search that returned chunks of a document whose entry had been replaced
\* by a later upsert.
C1_Witness ==
  /\ ret.op \in {"query", "queryWithMMR"}
  /\ hist[ret.docId].state = "upserted"
  /\ hist[ret.docId].replaced
  /\ Len(ret.chunks) >= 1

\* C7: no score returned by retrieve is below options.scoreThreshold, with
\* useMMR true or false.
C7_RetrieveAboveThreshold ==
  (ret.op = "retrieve" /\ ret.outcome = "ok") =>
    \A k \in 1..Len(ret.scores) : ret.scores[k] >= ret.scoreThreshold

\* What the code does keep: the threshold is applied when useMMR is false.
RetrievePlainAboveThreshold ==
  (ret.op = "retrieve" /\ ret.outcome = "ok" /\ ~ret.useMMR) =>
    \A k \in 1..Len(ret.scores) : ret.scores[k] >= ret.scoreThreshold

\* C8: retrieve calls hasDoc, then embedQuery, then exactly one search: on an
\* unknown document hasDoc alone, and the empty result; when embedQuery fails
\* no search, and the failure goes to the caller; otherwise queryWithMMR when
\* useMMR is true and query when it is false.
C8_RetrieveOrder ==
  ret.op = "retrieve" =>
    IF ret.docState # "upserted"
    THEN /\ ret.calls = <<"hasDoc">>
         /\ ret.outcome = "ok"
         /\ ret.chunks = <<>> /\ ret.scores = <<>>
    ELSE IF ret.thrownBy = "embedQuery"
    THEN ret.calls = <<"hasDoc", "embedQuery">> /\ ret.outcome = "throw"
    ELSE ret.calls = <<"hasDoc", "embedQuery",
                       IF ret.useMMR THEN "queryWithMMR" ELSE "query">>

\* retrieve with useMMR false went through hasDoc, embedQuery and query and
\* returned a chunk.
C8_Witness ==
  /\ ret.op = "retrieve"
  /\ ~ret.useMMR
  /\ ret.calls = <<"hasDoc", "embedQuery", "query">>
  /\ Len(ret.chunks) >= 1

\* C9: an upsert whose chunks and vectors differ in length throws and leaves
\* the store as it was.
C9_MismatchKeepsStore ==
  [][(ret'.op = "upsert" /\ ret'.nChunks # ret'.nVectors)
       => (ret'.outcome = "throw" /\ store' = store)]_vars

\* A mismatched upsert threw on a document that has an entry.
C9_Witness ==
  /\ ret.op = "upsert"
  /\ ret.nChunks # ret.nVectors
  /\ ret.outcome = "throw"
  /\ hasDoc(store, ret.docId)
  /\ Len(store[ret.docId].vectors) >= 1

\* C10: query, queryWithMMR and retrieve called on a docId that was never
\* upserted, or was deleted after its last upsert, return empty chunks and
\* scores and do not throw.
C10_UnknownDocEmpty ==
  (ret.op \in {"query", "queryWithMMR", "retrieve"}
     /\ ret.docState \in {"never", "deleted"}) =>
    /\ ret.outcome = "ok"
    /\ ret.chunks = <<>>
    /\ ret.scores = <<>>

\* retrieve returned for a document that had been upserted and then deleted.
C10_Witness ==
  /\ ret.op = "retrieve"
  /\ ret.docState = "deleted"
  /\ ret.outcome = "ok"

\* C11: hasDoc(d) is true exactly when the last upsert, deleteDoc or clearAll
\* that affected d was an upsert that completed, and deleteDoc(d) returns
\* true exactly when hasDoc(d) was true just before it (so a second deleteDoc
\* in a row returns false).
C11_HasDocIffUpserted ==
  /\ \A d \in DocIds : hasDoc(store, d) <=> hist[d].state = "upserted"
  /\ ret.op \in {"deleteDoc", "hasDoc"} =>
       (ret.value <=> ret.docState = "upserted")
  /\ ret.op = "deleteDoc" => ~hasDoc(store, ret.docId)

\* deleteDoc returned false on a document that had been upserted and deleted.
C11_Witness ==
  /\ ret.op = "deleteDoc"
  /\ ~ret.value
  /\ ret.docState = "deleted"

\* ------------------------------------------- the store under any caller
\* upsert called with the chunks of any document under any key: the store
\* takes the chunks as they come.
NextCallers ==
  \/ \E d \in DocIds, c \in DocIds, g \in Uploads, m \in 0..MaxUpsert :
       Upsert(d, UploadChunks(c, g, UploadSize(g)), [k \in 1..m |-> UploadVector(g)])
  \/ \E d \in DocIds : DeleteDoc(d)
  \/ \E d \in DocIds : HasDoc(d)
  \/ ClearAll

SpecCallers == Init /\ [][NextCallers]_vars

\* C12: every chunk stored under key d has docId d, and every stored entry
\* pairs one chunk with one vector, whatever was passed to upsert.
C12_ChunksUnderOwnKey ==
  \A d \in DOMAIN store :
    \A i \in 1..Len(store[d].vectors) :
      /\ store[d].vectors[i].chunk.docId = d
      /\ store[d].vectors[i].vector # Undefined

\* What the code does keep: every stored entry has its chunk and its vector,
\* as many entries as the upsert had chunks and vectors.
StoredPairsComplete ==
  \A d \in DOMAIN store :
    /\ Len(store[d].vectors) = Len(hist[d].chunks)
    /\ Len(store[d].vectors) = Len(hist[d].vectors)
    /\ \A i \in 1..Len(store[d].vectors) :
         /\ store[d].vectors[i].chunk = hist[d].chunks[i]
         /\ store[d].vectors[i].vector = hist[d].vectors[i]

\* ---------------------------------------------------------------- embeddings
\* lib/embeddings.ts.  A text is a number; the embedding provider answers a
\* text with its vector, or fails with an error message, of which the model
\* keeps the token the code looks for ("" for no error).
MAX_BATCH_SIZE == 100
RATE_LIMIT_DELAY == 100
MAX_RETRIES == 3
INITIAL_RETRY_DELAY == 1000

\* The greatest number of batches of an embedTexts call.
MaxBatches == 2

\* result.embedding.values of the provider for a text.
ProviderVector(text) == <<text, 0 - text>>

\* Mutant: no error is an authentication error.
isAuthError_never(errorMessage) == FALSE

\* errorMessage.includes('API_KEY_INVALID') || .includes('401') || .includes('403')
isAuthError(errorMessage) == errorMessage \in {"API_KEY_INVALID", "401", "403"}

\* Mutant: the delay does not grow.
retryDelay_flat(attempt) == INITIAL_RETRY_DELAY

\* INITIAL_RETRY_DELAY * Math.pow(2, attempt - 1)
retryDelay(attempt) == INITIAL_RETRY_DELAY * 2^(attempt - 1)

\* texts.slice(i, i + MAX_BATCH_SIZE), i counted from 0
batchOf(texts, i) == SubSeq(texts, i + 1, Min(i + MAX_BATCH_SIZE, Len(texts)))

\* Mutant: the vectors of the texts that did not fail are pushed.
embedBatchAttempt_partial(results, batch, failing) ==
  results \o [j \in 1..(IF failing = {} THEN Len(batch)
                        ELSE (CHOOSE f \in failing : \A g \in failing : f <= g) - 1)
                |-> [vector |-> ProviderVector(batch[j])]]

\* const batchResults = await Promise.all(batch.map(...)); results.push(...batchResults)
\* with the texts at the positions of failing rejected: results afterwards.
embedBatchAttempt(results, batch, failing) ==
  IF failing = {}
  THEN results \o [j \in 1..Len(batch) |-> [vector |-> ProviderVector(batch[j])]]
  ELSE results

AttemptEntry(i, attempt, error) ==
  [e |-> "attempt", i |-> i, attempt |-> attempt, error |-> error, ms |-> 0]
SleepEntry(ms) == [e |-> "sleep", i |-> 0, attempt |-> 0, error |-> "", ms |-> ms]

\* The catch block of an attempt that failed with errorMessage, the same in
\* embedText and embedTexts: throw or break, or wait, or leave the loop.
embedCatch(c, errorMessage) ==
  IF isAuthError(errorMessage)
  THEN [c EXCEPT !.pc = "done", !.outcome = "throw"]
  ELSE IF c.attempt < MAX_RETRIES
  THEN [c EXCEPT !.pc = "sleep", !.log = Append(@, SleepEntry(retryDelay(c.attempt)))]
  ELSE [c EXCEPT !.pc = "done", !.outcome = "throw"]

\* embedText(text) up to its first `await model.embedContent(text)`.
EmbedText(text, hasKey) ==
  /\ emb.pc \in {"idle", "done"}
  /\ emb' = IF hasKey
            THEN [EmbIdle EXCEPT !.op = "embedText", !.texts = <<text>>,
                                 !.pc = "embedContent", !.attempt = 1]
            ELSE \* getClient throws
                 [EmbIdle EXCEPT !.op = "embedText", !.texts = <<text>>,
                                 !.pc = "done", !.outcome = "throw"]
  /\ UNCHANGED <<store, ret, hist, retr, chat, chk, cit, cos, client, upl>>

\* model.embedContent answered the attempt of embedText.
EmbedTextAnswers(errorMessage) ==
  /\ emb.op = "embedText"
  /\ emb.pc = "embedContent"
  /\ LET c == [emb EXCEPT !.log = Append(@, AttemptEntry(0, emb.attempt, errorMessage))]
     IN  emb' = IF errorMessage = ""
                THEN [c EXCEPT !.pc = "done", !.outcome = "ok",
                               !.value = ProviderVector(emb.texts[1])]
                ELSE embedCatch(c, errorMessage)
  /\ UNCHANGED <<store, ret, hist, retr, chat, chk, cit, cos, client, upl>>

\* await sleep(delay) is over: the next attempt.
EmbedWakes ==
  /\ emb.pc = "sleep"
  /\ emb' = [emb EXCEPT !.pc = "embedContent", !.attempt = @ + 1]
  /\ UNCHANGED <<store, ret, hist, retr, chat, chk, cit, cos, client, upl>>

\* embedTexts(texts) up to the first `await Promise.all(...)`.
EmbedTexts(texts, hasKey) ==
  /\ emb.pc \in {"idle", "done"}
  /\ emb' = IF Len(texts) = 0
            THEN [EmbIdle EXCEPT !.op = "embedTexts", !.pc = "done", !.outcome = "ok"]
            ELSE IF ~hasKey
            THEN [EmbIdle EXCEPT !.op = "embedTexts", !.texts = texts,
                                 !.pc = "done", !.outcome = "throw"]
            ELSE [EmbIdle EXCEPT !.op = "embedTexts", !.texts = texts,
                                 !.pc = "embedContent", !.attempt = 1]
  /\ UNCHANGED <<store, ret, hist, retr, chat, chk, cit, cos, client, upl>>

\* Promise.all of the attempt of a batch settled: the texts at the positions
\* of failing were rejected with errorMessage.
EmbedTextsAnswers(failing, errorMessage) ==
  /\ emb.op = "embedTexts"
  /\ emb.pc = "embedContent"
  /\ (failing = {}) <=> (errorMessage = "")
  /\ LET batch == batchOf(emb.texts, emb.i)
         c == [emb EXCEPT !.log = Append(@, AttemptEntry(emb.i, emb.attempt, errorMessage)),
                          !.results = embedBatchAttempt(@, batch, failing)]
     IN  /\ failing \subseteq 1..Len(batch)
         /\ emb' = IF errorMessage # ""
                   THEN embedCatch(c, errorMessage)
                   ELSE IF emb.i + MAX_BATCH_SIZE < Len(emb.texts)
                   THEN [c EXCEPT !.pc = "rateLimit",
                                  !.log = Append(@, SleepEntry(RATE_LIMIT_DELAY))]
                   ELSE [c EXCEPT !.pc = "done", !.outcome = "ok", !.value = c.results]
  /\ UNCHANGED <<store, ret, hist, retr, chat, chk, cit, cos, client, upl>>

\* await sleep(RATE_LIMIT_DELAY) is over: the next batch.
EmbedTextsNextBatch ==
  /\ emb.pc = "rateLimit"
  /\ emb' = [emb EXCEPT !.pc = "embedContent", !.i = @ + MAX_BATCH_SIZE, !.attempt = 1]
  /\ UNCHANGED <<store, ret, hist, retr, chat, chk, cit, cos, client, upl>>

\* ------------------------------------------- the embeddings specification
\* One embedding call after another, the provider answering each attempt
\* with a vector or with any of its errors.
TextCounts ==
  {0} \cup UNION {{b * MAX_BATCH_SIZE + 1, (b + 1) * MAX_BATCH_SIZE} : b \in 0..(MaxBatches - 1)}
ErrorMessages == {"API_KEY_INVALID", "401", "403", "503", "missing embedding values"}

NextEmbed ==
  \/ \E text \in {1, 2}, hasKey \in BOOLEAN : EmbedText(text, hasKey)
  \/ \E m \in ErrorMessages \cup {""} : EmbedTextAnswers(m)
  \/ EmbedWakes
  \/ \E n \in TextCounts, hasKey \in BOOLEAN : EmbedTexts([k \in 1..n |-> k], hasKey)
  \/ \E f \in {{}, {1}, {Len(batchOf(emb.texts, emb.i))}},
        m \in {"", "403", "503", "missing embedding values"} : EmbedTextsAnswers(f, m)
  \/ EmbedTextsNextBatch

SpecEmbed == Init /\ [][NextEmbed]_vars

\* The attempts of the log, in order.
Attempts == SelectSeq(emb.log, LAMBDA x : x.e = "attempt")
AuthMessages == {"API_KEY_INVALID", "401", "403"}

\* C13: embedText makes at most 3 attempts, numbered 1, 2, 3; after attempt
\* k = 1, 2 failed with a non-authentication error it waits 1000 * 2^(k-1) ms
\* and then makes attempt k+1; it waits at no other time; a successful
\* attempt is the last one and its vector is returned; the third failed
\* attempt is the last one and the call throws.
C13_EmbedTextRetries ==
  emb.op = "embedText" =>
    LET log == emb.log
        n == Len(log)
    IN  /\ Len(Attempts) <= 3
        /\ \A k \in 1..Len(Attempts) : Attempts[k].attempt = k
        /\ n >= 1 => log[1].e = "attempt"
        /\ \A p \in 1..n :
             IF log[p].e = "sleep"
             THEN /\ p > 1
                  /\ log[p - 1].e = "attempt"
                  /\ log[p - 1].error \notin AuthMessages \cup {""}
                  /\ log[p - 1].attempt \in {1, 2}
                  /\ log[p].ms = 1000 * 2^(log[p - 1].attempt - 1)
                  /\ IF p = n THEN emb.pc \in {"sleep", "embedContent"}
                     ELSE log[p + 1].e = "attempt"
             ELSE IF log[p].error = ""
             THEN /\ p = n
                  /\ emb.pc = "done" /\ emb.outcome = "ok"
                  /\ emb.value = ProviderVector(emb.texts[1])
             ELSE IF log[p].attempt = 3
             THEN p = n /\ emb.pc = "done" /\ emb.outcome = "throw"
             ELSE log[p].error \notin AuthMessages =>
                    (p < n /\ log[p + 1].e = "sleep")
        /\ emb.outcome = "ok" => (n >= 1 /\ log[n].error = "" /\ log[n].e = "attempt")

\* embedText threw after three attempts and the waits of 1000 and 2000 ms.
C13_Witness ==
  /\ emb.op = "embedText"
  /\ emb.outcome = "throw"
  /\ Len(emb.log) = 5
  /\ emb.log[2].ms = 1000
  /\ emb.log[4].ms = 2000
  /\ emb.log[5].attempt = 3

\* C14: in embedText and embedTexts an attempt that fails with an
\* authentication error is the last thing the call does: no wait and no
\* attempt follows, of this batch or of a later one, and the call throws.
C14_AuthErrorFailsFast ==
  \A p \in 1..Len(emb.log) :
    (emb.log[p].e = "attempt" /\ emb.log[p].error \in AuthMessages) =>
      /\ p = Len(emb.log)
      /\ emb.pc = "done"
      /\ emb.outcome = "throw"

\* embedTexts failed on an authentication error in the second attempt of its
\* first batch, with a batch left to do.
C14_Witness ==
  /\ emb.op = "embedTexts"
  /\ Len(emb.texts) > 100
  /\ Len(emb.log) = 3
  /\ emb.log[3].error = "403"
  /\ emb.log[3].i = 0
  /\ emb.outcome = "throw"

\* C15: embedTexts returns one vector per text, in the order of the texts, or
\* throws and returns nothing.  Only a successful attempt adds vectors: the
\* results are always the vectors of the texts of the batches that
\* succeeded.  The batches go one after another from the first text, each by
\* at most 3 attempts, a batch is started only after the batch before it
\* succeeded, and the third failed attempt of a batch ends the call.
C15_EmbedTextsAllOrNothing ==
  emb.op = "embedTexts" =>
    LET att == Attempts
        done == IF emb.pc \in {"rateLimit", "done"} /\ emb.outcome # "throw"
                   /\ Len(emb.texts) > 0
                THEN Min(emb.i + 100, Len(emb.texts))
                ELSE emb.i
    IN  /\ emb.outcome = "ok" =>
             /\ Len(emb.value) = Len(emb.texts)
             /\ \A k \in 1..Len(emb.texts) :
                  emb.value[k].vector = ProviderVector(emb.texts[k])
        /\ emb.outcome = "throw" => emb.value = <<>>
        /\ emb.outcome = "none" => emb.value = <<>>
        /\ emb.results = [k \in 1..done |-> [vector |-> ProviderVector(emb.texts[k])]]
        /\ \A k \in 1..Len(att) :
             /\ att[k].attempt \in 1..3
             /\ IF att[k].attempt = 1
                THEN IF att[k].i = 0 THEN k = 1
                     ELSE /\ k > 1
                          /\ att[k - 1].error = ""
                          /\ att[k - 1].i = att[k].i - 100
                ELSE /\ k > 1
                     /\ att[k - 1].error # ""
                     /\ att[k - 1].i = att[k].i
                     /\ att[k - 1].attempt = att[k].attempt - 1
             /\ (att[k].attempt = 3 /\ att[k].error # "") =>
                  (k = Len(att) /\ emb.outcome = "throw")

\* embedTexts returned the vectors of two batches after a failed attempt of
\* the second batch.
C15_Witness ==
  /\ emb.op = "embedTexts"
  /\ emb.outcome = "ok"
  /\ Len(emb.texts) > 100
  /\ \E k \in 1..Len(Attempts) : Attempts[k].i = 100 /\ Attempts[k].error = "503"

\* ------------------------------------------------------------------ chunker
\* lib/chunk.ts.  A text is a sequence of characters.  Inside the chunker a
\* character carries the position it has in the page text (p; 0 for the
\* characters of a separator that the merge puts between two pieces): the
\* code reads the character alone (c), the position tells afterwards which
\* part of the page a chunk holds.
ChunkDefaults == [chunkSize |-> 1200, chunkOverlap |-> 180, minChunkSize |-> 100]

SEPARATORS ==
  << <<"\n", "\n", "\n">>, <<"\n", "\n">>, <<"\n">>, <<".", " ">>, <<"!", " ">>,
     <<"?", " ">>, <<";", " ">>, <<",", " ">>, <<" ">>, <<>> >>

\* The white space of String.prototype.trim that the texts of the model have.
WhiteSpace == {" ", "\n", "\t", "\r"}

tagged(text) == [k \in 1..Len(text) |-> [c |-> text[k], p |-> k]]
untagged(t) == [k \in 1..Len(t) |-> t[k].c]
separatorText(separator) == [k \in 1..Len(separator) |-> [c |-> separator[k], p |-> 0]]

\* text.trim()
trim(t) ==
  LET S == {k \in 1..Len(t) : t[k].c \notin WhiteSpace}
  IN  IF S = {} THEN <<>>
      ELSE SubSeq(t, CHOOSE k \in S : \A j \in S : k <= j,
                     CHOOSE k \in S : \A j \in S : j <= k)

\* Whether s stands in t at index k (indices from 0, as in the code).
matchesAt(t, s, k) ==
  /\ k >= 0
  /\ k + Len(s) <= Len(t)
  /\ \A j \in 1..Len(s) : t[k + j].c = s[j]

\* text.indexOf(s, from): -1 when s is not found
indexOf(t, s, from) ==
  LET S == {k \in from..(Len(t) - Len(s)) : matchesAt(t, s, k)}
  IN  IF S = {} THEN 0 - 1 ELSE CHOOSE k \in S : \A j \in S : k <= j

\* text.lastIndexOf(s, from): -1 when s is not found
lastIndexOf(t, s, from) ==
  LET S == {k \in 0..Min(from, Len(t) - Len(s)) : matchesAt(t, s, k)}
  IN  IF S = {} THEN 0 - 1 ELSE CHOOSE k \in S : \A j \in S : j <= k

\* An index argument of slice, brought into 0..n.
sliceIndex(n, a) == IF a < 0 THEN (IF n + a < 0 THEN 0 ELSE n + a) ELSE Min(a, n)

\* text.slice(a, b)
textSlice(t, a, b) == SubSeq(t, sliceIndex(Len(t), a) + 1, sliceIndex(Len(t), b))

\* text.split(separator), for a separator that is not empty
RECURSIVE splitFrom(_, _, _)
splitFrom(t, separator, from) ==
  LET k == indexOf(t, separator, from)
  IN  IF k = 0 - 1 THEN <<SubSeq(t, from + 1, Len(t))>>
      ELSE <<SubSeq(t, from + 1, k)>> \o splitFrom(t, separator, k + Len(separator))

split(t, separator) == splitFrom(t, separator, 0)

\* Mutant: the whole text is the overlap.
getOverlapText_all(text, overlapSize) == text

\* function getOverlapText(text, overlapSize)
getOverlapText(text, overlapSize) ==
  IF Len(text) <= overlapSize THEN text
  ELSE LET startPos == Len(text) - overlapSize
           firstSpace == indexOf(text, <<" ">>, startPos)
       IN  IF firstSpace # 0 - 1 /\ 2 * firstSpace < 2 * Len(text) - overlapSize
           THEN textSlice(text, firstSpace + 1, Len(text))
           ELSE textSlice(text, startPos, Len(text))

\* What a splitter returns: its chunks, or that it does not return.
Chunks(chunks) == [diverges |-> FALSE, chunks |-> chunks]
Diverges == [diverges |-> TRUE, chunks |-> <<>>]

\* The while loop of splitByCharacters from start on, the chunks pushed so
\* far being chunks.  Nothing but start decides the course of the loop: when
\* it comes to a start it has had before (seen), it goes on for ever.
RECURSIVE splitByCharactersFrom(_, _, _, _, _, _, _)
splitByCharactersFrom(text, chunkSize, chunkOverlap, minChunkSize, start, chunks, seen) ==
  IF ~(start < Len(text)) THEN Chunks(chunks)
  ELSE IF start \in seen THEN Diverges
  ELSE LET end0 == Min(start + chunkSize, Len(text))
           lastSpace == lastIndexOf(text, <<" ">>, end0)
           end == IF end0 < Len(text) /\ 2 * lastSpace > 2 * start + chunkSize
                  THEN lastSpace ELSE end0
           chunk == trim(textSlice(text, start, end))
           pushed == IF Len(chunk) >= minChunkSize THEN Append(chunks, chunk) ELSE chunks
       IN  IF end - chunkOverlap >= Len(text) - minChunkSize THEN Chunks(pushed)
           ELSE splitByCharactersFrom(text, chunkSize, chunkOverlap, minChunkSize,
                                      end - chunkOverlap, pushed, seen \cup {start})

\* function splitByCharacters(text, chunkSize, chunkOverlap, minChunkSize)
splitByCharacters(text, chunkSize, chunkOverlap, minChunkSize) ==
  splitByCharactersFrom(text, chunkSize, chunkOverlap, minChunkSize, 0, <<>>, {})

\* if (currentChunk.trim() && currentChunk.length >= minChunkSize)
keepsChunk(currentChunk, minChunkSize) ==
  Len(trim(currentChunk)) > 0 /\ Len(currentChunk) >= minChunkSize

\* overlapBuffer + (overlapBuffer ? separator : '') + split
seeded(overlapBuffer, separator, piece) ==
  overlapBuffer \o (IF Len(overlapBuffer) > 0 THEN separatorText(separator) ELSE <<>>)
                \o piece

RECURSIVE splitTextRecursive(_, _, _, _, _)
RECURSIVE mergeSplitsFrom(_, _, _, _, _, _, _, _)

\* The for loop of mergeSplits from splits[i] on (i from 1), m holding chunks,
\* currentChunk and overlapBuffer; then the push of the last chunk.
mergeSplitsFrom(splits, separator, chunkSize, chunkOverlap, minChunkSize, separatorIndex, i, m) ==
  IF i > Len(splits)
  THEN Chunks(IF keepsChunk(m.currentChunk, minChunkSize)
              THEN Append(m.chunks, trim(m.currentChunk)) ELSE m.chunks)
  ELSE
  LET piece == trim(splits[i])
      potentialChunk ==
        IF Len(m.currentChunk) > 0
        THEN m.currentChunk \o separatorText(separator) \o piece
        ELSE seeded(m.overlapBuffer, separator, piece)
      full == keepsChunk(m.currentChunk, minChunkSize)
      chunks == IF full THEN Append(m.chunks, trim(m.currentChunk)) ELSE m.chunks
      overlapBuffer == IF full THEN getOverlapText(m.currentChunk, chunkOverlap)
                       ELSE m.overlapBuffer
      subChunks == splitTextRecursive(piece, chunkSize, chunkOverlap, minChunkSize,
                                      separatorIndex + 1)
      n == Len(subChunks.chunks)
      next ==
        IF Len(piece) = 0 THEN m
        ELSE IF Len(potentialChunk) <= chunkSize
        THEN [m EXCEPT !.currentChunk = potentialChunk]
        ELSE IF Len(piece) > chunkSize
        THEN [chunks |-> chunks \o SubSeq(subChunks.chunks, 1, n - 1),
              currentChunk |-> IF n > 0 THEN subChunks.chunks[n] ELSE <<>>,
              overlapBuffer |-> <<>>]
        ELSE [chunks |-> chunks,
              currentChunk |-> seeded(overlapBuffer, separator, piece),
              overlapBuffer |-> <<>>]
  IN  IF /\ Len(piece) > chunkSize
         /\ Len(potentialChunk) > chunkSize
         /\ subChunks.diverges
      THEN Diverges
      ELSE mergeSplitsFrom(splits, separator, chunkSize, chunkOverlap, minChunkSize,
                           separatorIndex, i + 1, next)

\* function mergeSplits(splits, separator, chunkSize, chunkOverlap, minChunkSize, separatorIndex)
mergeSplits(splits, separator, chunkSize, chunkOverlap, minChunkSize, separatorIndex) ==
  mergeSplitsFrom(splits, separator, chunkSize, chunkOverlap, minChunkSize,
                  separatorIndex, 1,
                  [chunks |-> <<>>, currentChunk |-> <<>>, overlapBuffer |-> <<>>])

\* function splitTextRecursive(text, chunkSize, chunkOverlap, minChunkSize, separatorIndex)
splitTextRecursive(text, chunkSize, chunkOverlap, minChunkSize, separatorIndex) ==
  IF Len(text) <= chunkSize
  THEN Chunks(IF Len(trim(text)) > 0 THEN <<trim(text)>> ELSE <<>>)
  ELSE IF separatorIndex >= Len(SEPARATORS)
  THEN splitByCharacters(text, chunkSize, chunkOverlap, minChunkSize)
  ELSE IF SEPARATORS[separatorIndex + 1] = <<>>
  THEN splitByCharacters(text, chunkSize, chunkOverlap, minChunkSize)
  ELSE LET separator == SEPARATORS[separatorIndex + 1]
           parts == split(text, separator)
       IN  IF Len(parts) = 1
           THEN splitTextRecursive(text, chunkSize, chunkOverlap, minChunkSize,
                                   separatorIndex + 1)
           ELSE mergeSplits(parts, separator, chunkSize, chunkOverlap, minChunkSize,
                            separatorIndex)

\* The chunks of the pages from page k on, the chunks of the pages before
\* being chunks; ids[j] is the id drawn for the j-th chunk.
RECURSIVE chunkPagesFrom(_, _, _, _, _, _, _)
chunkPagesFrom(pages, docId, opts, ids, k, globalCharOffset, chunks) ==
  IF k > Len(pages) THEN Chunks(chunks)
  ELSE
  LET page == pages[k]
      pageChunks == splitTextRecursive(tagged(page.text), opts.chunkSize,
                                       opts.chunkOverlap, opts.minChunkSize, 0)
      made == [j \in 1..Len(pageChunks.chunks) |->
                 LET chunkText == pageChunks.chunks[j]
                     charStartInPage == indexOf(tagged(page.text), untagged(chunkText), 0)
                     charStart == globalCharOffset
                                    + (IF charStartInPage < 0 THEN 0 ELSE charStartInPage)
                 IN  [id |-> ids[Len(chunks) + j], docId |-> docId,
                      text |-> untagged(chunkText), src |-> chunkText,
                      pageNumber |-> page.pageNumber,
                      charStart |-> charStart,
                      charEnd |-> charStart + Len(chunkText)]]
  IN  IF pageChunks.diverges THEN Diverges
      ELSE chunkPagesFrom(pages, docId, opts, ids, k + 1,
                          globalCharOffset + Len(page.text) + 1, chunks \o made)

\* export function chunkPages(pages, docId, options)
chunkPages(pages, docId, options, ids) ==
  chunkPagesFrom(pages, docId, With(ChunkDefaults, options), ids, 1, 0, <<>>)

\* ---------------------------------------------- the chunker specification
\* chunkPages is a pure function: the initial states are its calls, the one
\* action applies it.
MaxTextLen == 6
MaxIds == 12

Alphabet == {"a", " ", "\n", "."}

\* The page texts extractTextFromPDF hands on: normalizeText has collapsed
\* the runs of spaces and trimmed every line and the text, and a page whose
\* text is blank is not pushed.
isPageText(text) ==
  /\ Len(text) > 0
  /\ text[1] \notin WhiteSpace
  /\ text[Len(text)] \notin WhiteSpace
  /\ \A k \in 1..(Len(text) - 1) :
       /\ ~(text[k] = " " /\ text[k + 1] \in WhiteSpace)
       /\ ~(text[k] \in WhiteSpace /\ text[k + 1] = " ")

PageTexts ==
  {text \in UNION {[1..n -> Alphabet] : n \in 1..MaxTextLen} : isPageText(text)}

\* A run of letters longer than the default chunkSize.
LongRun == [k \in 1..(ChunkDefaults.chunkSize + 1) |-> "a"]

SecondPage == <<"a", "a", " ", "a">>

\* Well-formed options: chunkOverlap < chunkSize.
SmallOptions ==
  {[chunkSize |-> cs, chunkOverlap |-> ov, minChunkSize |-> mn] :
     cs \in {3, 5}, ov \in {0, 1, 2}, mn \in {0, 4}}

PagesOf(text, more) ==
  <<[pageNumber |-> 1, text |-> text]>>
    \o (IF more THEN <<[pageNumber |-> 2, text |-> SecondPage]>> ELSE <<>>)

ChunkCall(pages, options) ==
  [pc |-> "called", pages |-> pages, docId |-> "d1", options |-> options,
   outcome |-> "none", chunks |-> <<>>]

ChunkCalls ==
  {ChunkCall(PagesOf(text, more), options) :
     text \in PageTexts, more \in BOOLEAN, options \in SmallOptions \cup {ChunkDefaults}}
  \cup {ChunkCall(PagesOf(LongRun, FALSE), ChunkDefaults)}

\* uuidv4().slice(0, 8): the ids are drawn at random, so two of them can be
\* the same.
IdDraw(collide) == [j \in 1..MaxIds |-> IF collide /\ j = 2 THEN 1 ELSE j]

InitChunk ==
  /\ store = EmptyStore
  /\ hist = [d \in DocIds |-> Never]
  /\ ret = NoCall
  /\ retr = RetrIdle
  /\ chat = ChatIdle
  /\ emb = EmbIdle
  /\ chk \in ChunkCalls
  /\ cit = CitIdle
  /\ cos = CosIdle
  /\ client = ClientIdle
  /\ upl = UplIdle

\* chunkPages(pages, docId, options) runs: it returns its chunks, or it never
\* returns.
ChunkPages(collide) ==
  /\ chk.pc = "called"
  /\ LET result == chunkPages(chk.pages, chk.docId, chk.options, IdDraw(collide))
     IN  chk' = IF result.diverges
                THEN [chk EXCEPT !.pc = "running", !.outcome = "diverges"]
                ELSE [chk EXCEPT !.pc = "done", !.outcome = "ok",
                                 !.chunks = result.chunks]
  /\ UNCHANGED <<store, ret, hist, retr, chat, emb, cit, cos, client, upl>>

NextChunk == \E collide \in BOOLEAN : ChunkPages(collide)

SpecChunk == InitChunk /\ [][NextChunk]_vars

\* ------------------------------------------------ properties of the chunker
\* The chunks returned for the page of number n.
PageChunks(n) == SelectSeq(chk.chunks, LAMBDA c : c.pageNumber = n)

\* The positions of the page text that chunk c holds.
Holds(c) == {c.src[k].p : k \in 1..Len(c.src)} \ {0}

\* The length of the longest suffix of a that is a prefix of b, as parts of
\* the page: characters of the same positions.
SharedText(a, b) ==
  MaxOf({k \in 0..Min(Len(a), Len(b)) :
           SubSeq(a, Len(a) - k + 1, Len(a)) = SubSeq(b, 1, k)})

\* C17: for well-formed options (chunkOverlap < chunkSize) chunkPages
\* returns: no call goes on for ever.
C17_ChunkPagesTerminates ==
  (chk.pc # "idle" /\ chk.options.chunkOverlap < chk.options.chunkSize)
    => chk.outcome # "diverges"

\* C18: every returned chunk has at least minChunkSize characters, unless
\* its page is shorter than minChunkSize and that page has one chunk at most.
C18_ChunksReachMinSize ==
  chk.outcome = "ok" =>
    \A n \in 1..Len(chk.pages) :
      LET cs == PageChunks(n)
      IN  \A j \in 1..Len(cs) :
            \/ Len(cs[j].text) >= chk.options.minChunkSize
            \/ /\ Len(chk.pages[n].text) < chk.options.minChunkSize
               /\ Len(cs) <= 1

\* C19: every character of a page that is not white space is held by a chunk
\* of that page, unless it lies in a trailing fragment shorter than
\* minChunkSize; and the chunks of a page follow the order of the page.
C19_ChunksCoverPage ==
  chk.outcome = "ok" =>
    \A n \in 1..Len(chk.pages) :
      LET text == chk.pages[n].text
          cs == PageChunks(n)
      IN  /\ \A p \in 1..Len(text) :
               \/ text[p] \in WhiteSpace
               \/ \E j \in 1..Len(cs) : p \in Holds(cs[j])
               \/ Len(text) - p + 1 < chk.options.minChunkSize
          /\ \A j \in 1..(Len(cs) - 1) :
               \A p \in Holds(cs[j]) : \E q \in Holds(cs[j + 1]) : p <= q

\* C20: two consecutive chunks of a page share at most chunkOverlap
\* characters of the page (the end of the earlier one that is the beginning
\* of the later one).
C20_OverlapBounded ==
  chk.outcome = "ok" =>
    \A n \in 1..Len(chk.pages) :
      LET cs == PageChunks(n)
      IN  \A j \in 1..(Len(cs) - 1) :
            SharedText(cs[j].src, cs[j + 1].src) <= chk.options.chunkOverlap

\* Two consecutive chunks share exactly chunkOverlap characters, two of them.
C20_Witness ==
  /\ chk.outcome = "ok"
  /\ chk.options.chunkOverlap = 2
  /\ \E j \in 1..(Len(chk.chunks) - 1) :
       /\ chk.chunks[j].pageNumber = chk.chunks[j + 1].pageNumber
       /\ SharedText(chk.chunks[j].src, chk.chunks[j + 1].src) = 2

\* The global offset of page n: the lengths, each with one more for the
\* page separator, of the pages before it.
RECURSIVE PageOffset(_)
PageOffset(n) == IF n <= 1 THEN 0 ELSE PageOffset(n - 1) + Len(chk.pages[n - 1].text) + 1

\* C21: every chunk has charStart >= 0 and charEnd - charStart equal to the
\* length of its text, which is not empty, and its text stands in the text
\* of its page at charStart less the global offset of the page.
C21_OffsetsLocateChunk ==
  chk.outcome = "ok" =>
    \A j \in 1..Len(chk.chunks) :
      LET c == chk.chunks[j]
          n == c.pageNumber
      IN  /\ c.charStart >= 0
          /\ c.charEnd - c.charStart = Len(c.text)
          /\ Len(c.text) > 0
          /\ matchesAt(tagged(chk.pages[n].text), c.text, c.charStart - PageOffset(n))

\* What the code does keep: charStart is at or after the offset of the page,
\* charEnd is charStart plus the length of the text, and a chunk whose text
\* stands in the page has the first place where it does.
OffsetsFromIndexOf ==
  chk.outcome = "ok" =>
    \A j \in 1..Len(chk.chunks) :
      LET c == chk.chunks[j]
          n == c.pageNumber
          at == indexOf(tagged(chk.pages[n].text), c.text, 0)
      IN  /\ c.charEnd = c.charStart + Len(c.text)
          /\ Len(c.text) > 0
          /\ c.charStart = PageOffset(n) + (IF at < 0 THEN 0 ELSE at)

\* C22: the ids of the chunks of one call are pairwise distinct.
C22_ChunkIdsDistinct ==
  chk.outcome = "ok" =>
    \A j, k \in 1..Len(chk.chunks) :
      chk.chunks[j].id = chk.chunks[k].id => j = k

\* C30: no returned chunk is longer than chunkSize.
C30_ChunksWithinChunkSize ==
  chk.outcome = "ok" =>
    \A j \in 1..Len(chk.chunks) : Len(chk.chunks[j].text) <= chk.options.chunkSize

\* ------------------------------------------- the query specification
\* One stored document, any contents of at most MaxChunks pairs (as left by
\* upsert("d1", chunks, vectors)), queried with every query vector, topK,
\* threshold, lambda and candidate multiplier.
Thresholds == {DefaultScoreThreshold, One \div 2}
\* The query vectors: against the stored vectors they give every cosine of
\* the model (1, 0.5, 0, -0.5), equal scores, and a dimension mismatch.
QueryVectors == {E1, Ones, Short}
Lambdas == {0, DefaultLambda, One}
Multipliers == {1, DefaultCandidateMultiplier}

SeqsUpTo(S, n) == UNION {[1..k -> S] : k \in 0..n}
ChunksOf(d, n) == [i \in 1..n |-> Chunk(d, i)]

InitQuery ==
  /\ \E vs \in SeqsUpTo(Vectors, MaxChunks) :
       /\ store = upsert(EmptyStore, "d1", ChunksOf("d1", Len(vs)), vs)
       /\ hist = [d \in DocIds |->
                    IF d = "d1"
                    THEN Upserted(EmptyStore, "d1", ChunksOf("d1", Len(vs)), vs)
                    ELSE Never]
  /\ ret = NoCall
  /\ retr = RetrIdle
  /\ chat = ChatIdle
  /\ emb = EmbIdle
  /\ chk = ChkIdle
  /\ cit = CitIdle
  /\ cos = CosIdle
  /\ client = ClientIdle
  /\ upl = UplIdle

\* One call per behaviour: the store is not changed by a search, so a second
\* search would add nothing.
NextQuery ==
  \/ \E q \in QueryVectors, topK \in 1..MaxTopK, t \in Thresholds :
       ret = NoCall /\ Query("d1", q, topK, t)
  \/ \E q \in QueryVectors, topK \in 1..MaxTopK, l \in Lambdas, m \in Multipliers :
       ret = NoCall /\ QueryWithMMR("d1", q, topK, l, m)

SpecQuery == InitQuery /\ [][NextQuery]_vars

\* ------------------------------------------------- properties of a result
\* The similarity of stored entry i of the queried document to the query.
SimOf(i) == cosineSimilarity(ret.queryVector, store[ret.docId].vectors[i].vector)
\* The place in the store of the k-th returned chunk.
PosOf(k) ==
  CHOOSE i \in 1..Len(store[ret.docId].vectors) :
     store[ret.docId].vectors[i].chunk = ret.chunks[k]
StoredCount == Len(store[ret.docId].vectors)
Searched(op) == ret.op = op /\ ret.outcome = "ok" /\ hasDoc(store, ret.docId)

\* C2: query returns the stored entries with similarity >= scoreThreshold,
\* ordered by similarity descending and, among equals, by insertion order,
\* cut to the first topK; scores[i] is the similarity of chunks[i].
C2_QueryTopK ==
  Searched("query") =>
    LET n == Len(ret.chunks) IN
    /\ Len(ret.scores) = n
    /\ n <= ret.topK
    /\ \A k \in 1..n :
         /\ \E i \in 1..StoredCount : store[ret.docId].vectors[i].chunk = ret.chunks[k]
         /\ ret.scores[k] = SimOf(PosOf(k))
         /\ ret.scores[k] >= ret.scoreThreshold
    /\ \A k \in 1..(n - 1) :
         \/ ret.scores[k] > ret.scores[k + 1]
         \/ ret.scores[k] = ret.scores[k + 1] /\ PosOf(k) < PosOf(k + 1)
    /\ \A i \in 1..StoredCount :
         (SimOf(i) >= ret.scoreThreshold /\ \A k \in 1..n : PosOf(k) # i) =>
           /\ n = ret.topK
           /\ \/ SimOf(i) < ret.scores[n]
              \/ SimOf(i) = ret.scores[n] /\ PosOf(n) < i

\* A query that filtered some entries out, cut the list at topK and ordered
\* two entries of equal similarity.
C2_Witness ==
  /\ Searched("query")
  /\ Len(ret.chunks) = 2
  /\ ret.topK = 2
  /\ StoredCount = 3
  /\ ret.scores[1] = ret.scores[2]
  /\ \E i \in 1..StoredCount : SimOf(i) < ret.scoreThreshold

\* The first stored entry among those of the greatest similarity to the query.
MostRelevant ==
  CHOOSE i \in 1..StoredCount :
     \A j \in 1..StoredCount :
        SimOf(j) < SimOf(i) \/ (SimOf(j) = SimOf(i) /\ i <= j)

\* C4: on a document of n >= 1 entries with topK >= 1, queryWithMMR returns
\* min(topK, n) pairwise distinct stored chunks, the most relevant one among
\* them, ordered by their similarity to the query descending, and scores[i]
\* is that similarity.
C4_MMRResult ==
  (Searched("queryWithMMR") /\ StoredCount >= 1 /\ ret.topK >= 1) =>
    LET n == Len(ret.chunks) IN
    /\ n = Min(ret.topK, StoredCount)
    /\ Len(ret.scores) = n
    /\ \A k \in 1..n :
         /\ \E i \in 1..StoredCount : store[ret.docId].vectors[i].chunk = ret.chunks[k]
         /\ ret.scores[k] = SimOf(PosOf(k))
    /\ \A k, l \in 1..n : k # l => ret.chunks[k] # ret.chunks[l]
    /\ \E k \in 1..n : PosOf(k) = MostRelevant
    /\ \A k \in 1..(n - 1) : ret.scores[k] >= ret.scores[k + 1]

\* Three chunks selected out of three, the third selected more relevant than
\* the second: the final sort changed the order.
C4_Witness ==
  /\ Searched("queryWithMMR")
  /\ StoredCount = 3
  /\ Len(ret.selected) = 3
  /\ ret.selected[2].score < ret.selected[3].score
  /\ ret.chunks = <<ret.selected[1].chunk, ret.selected[3].chunk, ret.selected[2].chunk>>

\* The relevance pool of the MMR search that returned, in relevance order.
Pool ==
  slice(sortByScoreDesc(scoreAll(store[ret.docId], ret.queryVector)),
        Min(ret.topK * ret.candidateMultiplier, StoredCount))
\* lambda * relevance - (1 - lambda) * (greatest similarity to an item of prev)
MMRScoreOf(x, prev) ==
  ret.lambda * x.score
    - (One - ret.lambda)
        * MaxOf({cosineSimilarity(x.vector, prev[j].vector) : j \in 1..Len(prev)})

\* The stored document of the scenario: chunks 1 and 3 alike, chunk 2 apart.
Scenario(v3) ==
  /\ hasDoc(store, "d1")
  /\ store["d1"].vectors =
       << [chunk |-> Chunk("d1", 1), vector |-> Ones],
          [chunk |-> Chunk("d1", 2), vector |-> NegE2],
          [chunk |-> Chunk("d1", 3), vector |-> v3] >>
ScenarioCall(op) ==
  /\ ret.op = op
  /\ ret.docId = "d1"
  /\ ret.queryVector = E1
  /\ ret.topK = 2

\* C5: every MMR selection after the seed takes a candidate of the remaining
\* pool that maximises lambda * relevance - (1 - lambda) * max similarity to
\* the selected, the earliest in relevance order among equals; in the
\* scenario MMR (topK 2, lambda 0.5, default pool) returns chunks 1 and 2 and plain query
\* (topK 2) returns chunks 1 and 3.
C5_MMRStep ==
  /\ Searched("queryWithMMR") =>
       LET pool == Pool IN
       \A k \in 2..Len(ret.selected) :
          LET prev == SubSeq(ret.selected, 1, k - 1)
              chosen == ret.selected[k]
              best == MMRScoreOf(chosen, prev)
              at == CHOOSE i \in 1..Len(pool) : pool[i].chunk = chosen.chunk
          IN  /\ \E i \in 1..Len(pool) : pool[i] = chosen
              /\ \A j \in 1..(k - 1) : prev[j].chunk # chosen.chunk
              /\ \A i \in 1..Len(pool) :
                   (\A j \in 1..(k - 1) : pool[i].chunk # prev[j].chunk) =>
                     LET other == MMRScoreOf(pool[i], prev)
                     IN  other < best \/ (other = best /\ at <= i)
  /\ \A v3 \in {Ones, OnesButLast} :
       /\ (Scenario(v3) /\ ScenarioCall("queryWithMMR") /\ ret.lambda = DefaultLambda
             /\ ret.candidateMultiplier = DefaultCandidateMultiplier) =>
            ret.chunks = <<Chunk("d1", 1), Chunk("d1", 2)>>
       /\ (Scenario(v3) /\ ScenarioCall("query")
             /\ ret.scoreThreshold = DefaultScoreThreshold) =>
            ret.chunks = <<Chunk("d1", 1), Chunk("d1", 3)>>

\* The MMR search of the scenario, where the second selection was decided
\* between chunk 3 (more relevant, close to chunk 1) and chunk 2.
C5_Witness ==
  /\ Scenario(OnesButLast)
  /\ ScenarioCall("queryWithMMR")
  /\ ret.lambda = DefaultLambda
  /\ ret.candidateMultiplier = DefaultCandidateMultiplier
  /\ Len(ret.selected) = 2
  /\ ret.selected[2].chunk = Chunk("d1", 2)

Range(s) == {s[i] : i \in 1..Len(s)}

\* C6: with lambda = 1 the chunks returned by queryWithMMR are, as a set, the
\* chunks returned by plain query with the same topK.
C6_LambdaOneIsQuery ==
  (Searched("queryWithMMR") /\ ret.lambda = One) =>
    Range(ret.chunks)
      = Range(query(store, ret.docId, ret.queryVector, ret.topK,
                    DefaultScoreThreshold).chunks)

\* The same with a threshold that excludes no entry (not a claim of the
\* specification; kept to show where C6 and the code part).
LambdaOneIsUnfilteredQuery ==
  (Searched("queryWithMMR") /\ ret.lambda = One) =>
    Range(ret.chunks)
      = Range(query(store, ret.docId, ret.queryVector, ret.topK, 0 - One).chunks)

\* ------------------------------------------------------- extractCitations
\* lib/llm.ts.  The answer text is a sequence of tokens: the pieces the
\* citation pattern /\(page\s*(\d+),?\s*chunk\s*(ch_[\w]+|\d+)\)/gi tells
\* apart ("(page", a number, ",", "chunk", a chunk reference, ")") and "w"
\* for any other word.
Digits == {"1", "2", "3"}
ChunkRefs == {"ch_a", "ch_b", "ch_z"}

\* parseInt(match[1], 10)
parseInt(digits) == CHOOSE n \in 1..3 : <<"1", "2", "3">>[n] = digits

\* The match of the pattern that begins at token k of text, if there is
\* one: the page number, the chunk reference and the token after the match.
markerAt(text, k) ==
  LET afterComma == IF k + 2 <= Len(text) /\ text[k + 2] = "," THEN k + 3 ELSE k + 2
  IN  IF /\ afterComma + 2 <= Len(text)
         /\ text[k] = "(page"
         /\ text[k + 1] \in Digits
         /\ text[afterComma] = "chunk"
         /\ text[afterComma + 1] \in ChunkRefs \cup Digits
         /\ text[afterComma + 2] = ")"
      THEN [found |-> TRUE, pageNumber |-> parseInt(text[k + 1]),
            chunkRef |-> text[afterComma + 1], next |-> afterComma + 3]
      ELSE [found |-> FALSE, pageNumber |-> 0, chunkRef |-> "", next |-> k + 1]

\* The matches citationPattern.exec(text) gives one after the other, from
\* token k on.
RECURSIVE citationMatchesFrom(_, _)
citationMatchesFrom(text, k) ==
  IF k > Len(text) THEN <<>>
  ELSE LET m == markerAt(text, k)
       IN  IF m.found
           THEN <<[pageNumber |-> m.pageNumber, chunkRef |-> m.chunkRef]>>
                  \o citationMatchesFrom(text, m.next)
           ELSE citationMatchesFrom(text, k + 1)

citationMatches(text) == citationMatchesFrom(text, 1)

\* chunks.find((c) => c.id === chunkRef || c.pageNumber === pageNumber): the
\* index of the chunk found, 0 when there is none.
findChunk(chunks, chunkRef, pageNumber) ==
  LET S == {i \in 1..Len(chunks) :
              chunks[i].id = chunkRef \/ chunks[i].pageNumber = pageNumber}
  IN  IF S = {} THEN 0 ELSE CHOOSE i \in S : \A j \in S : i <= j

\* chunk.text.slice(0, 100) + (chunk.text.length > 100 ? '...' : '')
citationText(text) ==
  SubSeq(text, 1, Min(100, Len(text))) \o (IF Len(text) > 100 THEN <<"...">> ELSE <<>>)

citationOf(chunk) ==
  [chunkId |-> chunk.id, pageNumber |-> chunk.pageNumber, text |-> citationText(chunk.text)]

\* `${chunk.id}-${chunk.pageNumber}`
citationKey(chunk) == <<chunk.id, "-", chunk.pageNumber>>

\* seen.has(key)
seenHas(seen, key) == key \in seen

\* The while loop of extractCitations over the matches from the k-th on.
RECURSIVE citeMatchesFrom(_, _, _, _, _)
citeMatchesFrom(matches, chunks, k, seen, citations) ==
  IF k > Len(matches) THEN citations
  ELSE LET i == findChunk(chunks, matches[k].chunkRef, matches[k].pageNumber)
       IN  IF i = 0 \/ seenHas(seen, citationKey(chunks[i]))
           THEN citeMatchesFrom(matches, chunks, k + 1, seen, citations)
           ELSE citeMatchesFrom(matches, chunks, k + 1,
                                seen \cup {citationKey(chunks[i])},
                                Append(citations, citationOf(chunks[i])))

\* if (citations.length === 0)
usesFallback(matches, citations) == Len(citations) = 0

\* export function extractCitations(text, chunks)
extractCitations(text, chunks) ==
  LET matches == citationMatches(text)
      citations == citeMatchesFrom(matches, chunks, 1, {}, <<>>)
  IN  IF usesFallback(matches, citations)
      THEN [k \in 1..Min(3, Len(chunks)) |-> citationOf(chunks[k])]
      ELSE citations

\* --------------------------------------------- the citations specification
\* extractCitations is a pure function: the initial states are its calls, the
\* one action applies it.
MaxMarkers == 3
MaxContext == 4

\* The pieces of an answer: a word, a marker of each page and chunk
\* reference, a marker with a chunk number and no comma.
Marker(page, ref) == <<"(page", page, ",", "chunk", ref, ")">>

AnswerPieces ==
  {<<"w">>, <<"(page", "3", "chunk", "1", ")">>}
    \cup {Marker(page, ref) : page \in {"1", "2"}, ref \in ChunkRefs}

RECURSIVE Flatten(_)
Flatten(pieces) == IF pieces = <<>> THEN <<>> ELSE Head(pieces) \o Flatten(Tail(pieces))

AnswerTexts ==
  {Flatten(pieces) : pieces \in UNION {[1..n -> AnswerPieces] : n \in 0..MaxMarkers}}

\* The chunks retrieval can hand on: two of one page, two of one id.
ContextChunkSet ==
  {[id |-> "ch_a", pageNumber |-> 1, text |-> <<"a">>],
   [id |-> "ch_b", pageNumber |-> 1, text |-> <<"b">>],
   [id |-> "ch_b", pageNumber |-> 2, text |-> <<"b", "b">>]}

Contexts == UNION {[1..n -> ContextChunkSet] : n \in 0..MaxContext}

InitCite ==
  /\ store = EmptyStore
  /\ hist = [d \in DocIds |-> Never]
  /\ ret = NoCall
  /\ retr = RetrIdle
  /\ chat = ChatIdle
  /\ emb = EmbIdle
  /\ chk = ChkIdle
  /\ cit \in {[pc |-> "called", text |-> text, chunks |-> chunks,
               matches |-> <<>>, resolved |-> <<>>, citations |-> <<>>] :
                text \in AnswerTexts, chunks \in Contexts}
  /\ cos = CosIdle
  /\ client = ClientIdle
  /\ upl = UplIdle

\* extractCitations(text, chunks) returns; matches and resolved keep what the
\* loop saw: the markers, and for each the index of the chunk it found.
ExtractCitations ==
  /\ cit.pc = "called"
  /\ LET matches == citationMatches(cit.text)
     IN  cit' = [cit EXCEPT
                   !.pc = "done",
                   !.matches = matches,
                   !.resolved = [k \in 1..Len(matches) |->
                                   findChunk(cit.chunks, matches[k].chunkRef,
                                             matches[k].pageNumber)],
                   !.citations = extractCitations(cit.text, cit.chunks)]
  /\ UNCHANGED <<store, ret, hist, retr, chat, emb, chk, cos, client, upl>>

NextCite == ExtractCitations

SpecCite == InitCite /\ [][NextCite]_vars

\* -------------------------------------------- properties of the citations
\* The indices of the context chunks whose id is the reference of marker k.
ChunksOfRef(k) == {i \in 1..Len(cit.chunks) : cit.chunks[i].id = cit.matches[k].chunkRef}

\* The markers that resolved to a chunk of the id and page of citation c.
MarkersOf(c) ==
  {k \in 1..Len(cit.matches) :
     /\ cit.resolved[k] # 0
     /\ cit.chunks[cit.resolved[k]].id = c.chunkId
     /\ cit.chunks[cit.resolved[k]].pageNumber = c.pageNumber}

FirstMarkerOf(c) == CHOOSE k \in MarkersOf(c) : \A j \in MarkersOf(c) : k <= j

\* C23: a marker resolves to a context chunk of its chunk reference when
\* there is one, and to a chunk of its page number only when no context
\* chunk has that id.
C23_MarkerResolvesByIdFirst ==
  cit.pc = "done" =>
    \A k \in 1..Len(cit.matches) :
      LET i == cit.resolved[k]
      IN  /\ ChunksOfRef(k) # {} => i \in ChunksOfRef(k)
          /\ (i # 0 /\ i \notin ChunksOfRef(k)) =>
               /\ ChunksOfRef(k) = {}
               /\ cit.chunks[i].pageNumber = cit.matches[k].pageNumber

\* What the code does keep: a marker resolves to the first context chunk
\* that has its chunk reference or its page number.
MarkerResolvesToFirstOfEither ==
  cit.pc = "done" =>
    \A k \in 1..Len(cit.matches) :
      LET fits(i) == \/ cit.chunks[i].id = cit.matches[k].chunkRef
                     \/ cit.chunks[i].pageNumber = cit.matches[k].pageNumber
          i == cit.resolved[k]
      IN  IF i = 0 THEN \A j \in 1..Len(cit.chunks) : ~fits(j)
          ELSE fits(i) /\ \A j \in 1..(i - 1) : ~fits(j)

\* C24: no two citations have the same chunkId and pageNumber, and the
\* citations stand in the order of the first marker that resolved to each.
C24_CitationsDistinctInOrder ==
  cit.pc = "done" =>
    LET cs == cit.citations
    IN  /\ \A j, k \in 1..Len(cs) :
             (cs[j].chunkId = cs[k].chunkId /\ cs[j].pageNumber = cs[k].pageNumber)
               => j = k
        /\ (\E k \in 1..Len(cit.matches) : cit.resolved[k] # 0) =>
             /\ \A j \in 1..Len(cs) : MarkersOf(cs[j]) # {}
             /\ \A j, k \in 1..Len(cs) :
                  j < k => FirstMarkerOf(cs[j]) < FirstMarkerOf(cs[k])

\* What the code does keep: the same, for context chunks of which no two
\* have the same id and page number.
CitationsDistinctOfDistinctChunks ==
  (\A i, j \in 1..Len(cit.chunks) :
     (cit.chunks[i].id = cit.chunks[j].id
        /\ cit.chunks[i].pageNumber = cit.chunks[j].pageNumber) => i = j)
    => C24_CitationsDistinctInOrder

\* C25: with no marker in the text the citations are the first three context
\* chunks (all of them when there are fewer), in context order; with a
\* marker in the text every citation is a chunk that a marker resolved to.
C25_FallbackIffNoMarker ==
  cit.pc = "done" =>
    IF Len(cit.matches) = 0
    THEN cit.citations = [k \in 1..Min(3, Len(cit.chunks)) |-> citationOf(cit.chunks[k])]
    ELSE \A j \in 1..Len(cit.citations) : MarkersOf(cit.citations[j]) # {}

\* What the code does keep: the first three context chunks are cited when no
\* marker resolved to a chunk, and only then a chunk that no marker resolved
\* to is cited.
FallbackIffNothingResolved ==
  cit.pc = "done" =>
    IF \A k \in 1..Len(cit.matches) : cit.resolved[k] = 0
    THEN cit.citations = [k \in 1..Min(3, Len(cit.chunks)) |-> citationOf(cit.chunks[k])]
    ELSE \A j \in 1..Len(cit.citations) : MarkersOf(cit.citations[j]) # {}

\* ----------------------------------------------- the cosine specification
\* cosineSimilarity is a pure function: the initial states are its calls, the
\* one action applies it.
MaxDim == 3
Components == {0 - 1, 0, 1}

CosVectors == UNION {[1..n -> Components] : n \in 1..MaxDim}

InitCosine ==
  /\ store = EmptyStore
  /\ hist = [d \in DocIds |-> Never]
  /\ ret = NoCall
  /\ retr = RetrIdle
  /\ chat = ChatIdle
  /\ emb = EmbIdle
  /\ chk = ChkIdle
  /\ cit = CitIdle
  /\ cos \in {[pc |-> "called", a |-> a, b |-> b, outcome |-> "none", value |-> 0] :
                a \in CosVectors, b \in CosVectors}
  /\ client = ClientIdle
  /\ upl = UplIdle

\* cosineSimilarity(a, b) throws or returns.
CosineSimilarity ==
  /\ cos.pc = "called"
  /\ cos' = IF cosineThrows(cos.a, cos.b)
            THEN [cos EXCEPT !.pc = "done", !.outcome = "throw"]
            ELSE [cos EXCEPT !.pc = "done", !.outcome = "ok",
                             !.value = cosineSimilarity(cos.a, cos.b)]
  /\ UNCHANGED <<store, ret, hist, retr, chat, emb, chk, cit, client, upl>>

NextCosine == CosineSimilarity

SpecCosine == InitCosine /\ [][NextCosine]_vars

\* ------------------------------------------------ properties of the cosine
NormSquared(v) == DotUpTo(v, v, Len(v))
Opposite(v) == [k \in 1..Len(v) |-> 0 - v[k]]

\* C26: cosineSimilarity(a, b) throws when the lengths differ (and only
\* then); it returns 0 when a or b has norm 0, the value of
\* cosineSimilarity(b, a), 1 when b is a and not zero, 0 when a and b are
\* orthogonal unit vectors, and -1 when b is the opposite of a.
C26_CosineLaws ==
  cos.pc = "done" =>
    /\ cos.outcome = "throw" <=> Len(cos.a) # Len(cos.b)
    /\ cos.outcome = "ok" =>
         /\ (NormSquared(cos.a) = 0 \/ NormSquared(cos.b) = 0) => cos.value = 0
         /\ cos.value = cosineSimilarity(cos.b, cos.a)
         /\ (cos.a = cos.b /\ NormSquared(cos.a) # 0) => cos.value = One
         /\ (NormSquared(cos.a) = 1 /\ NormSquared(cos.b) = 1
               /\ DotUpTo(cos.a, cos.b, Len(cos.a)) = 0) => cos.value = 0
         /\ (cos.b = Opposite(cos.a) /\ NormSquared(cos.a) # 0) => cos.value = 0 - One

\* What the code does keep: the same, with 1 and -1 only for vectors whose
\* norm is a whole number, and within the rounding of one root otherwise.
CosineLawsUpToRounding ==
  cos.pc = "done" =>
    /\ cos.outcome = "throw" <=> Len(cos.a) # Len(cos.b)
    /\ cos.outcome = "ok" =>
         LET whole == \E r \in 0..MaxDim : r * r = NormSquared(cos.a)
             near(x, y) == x - y \in (0 - 1)..1
         IN  /\ (NormSquared(cos.a) = 0 \/ NormSquared(cos.b) = 0) => cos.value = 0
             /\ cos.value = cosineSimilarity(cos.b, cos.a)
             /\ (cos.a = cos.b /\ NormSquared(cos.a) # 0) =>
                  IF whole THEN cos.value = One ELSE near(cos.value, One)
             /\ (NormSquared(cos.a) = 1 /\ NormSquared(cos.b) = 1
                   /\ DotUpTo(cos.a, cos.b, Len(cos.a)) = 0) => cos.value = 0
             /\ (cos.b = Opposite(cos.a) /\ NormSquared(cos.a) # 0) =>
                  IF whole THEN cos.value = 0 - One ELSE near(cos.value, 0 - One)

\* ---------------------------------------------------------- Chat component
\* components/Chat.tsx, handleSubmit.  The body of the response is a sequence
\* of symbols: "data: ", "{", the type and the value of a delta, "}" and
\* "\n"; a read of the reader gives some of them.  A content is the sequence
\* of the texts it is the concatenation of; the citations of a done delta
\* are a name ("" for none).
TextDelta(text) == [type |-> "text", value |-> text]
DoneDelta(citations) == [type |-> "done", value |-> citations]
ErrorDelta(error) == [type |-> "error", value |-> error]

\* encoder.encode(`data: ${JSON.stringify(delta)}\n\n`)
encodeDelta(delta) == <<"data: ", "{", delta.type, delta.value, "}", "\n", "\n">>

RECURSIVE encodeDeltas(_)
encodeDeltas(deltas) ==
  IF deltas = <<>> THEN <<>> ELSE encodeDelta(Head(deltas)) \o encodeDeltas(Tail(deltas))

\* chunk.split('\n')
RECURSIVE splitLines(_, _)
splitLines(chunk, line) ==
  IF chunk = <<>> THEN <<line>>
  ELSE IF Head(chunk) = "\n" THEN <<line>> \o splitLines(Tail(chunk), <<>>)
  ELSE splitLines(Tail(chunk), Append(line, Head(chunk)))

\* line.startsWith('data: ')
startsWithData(line) == Len(line) > 0 /\ line[1] = "data: "

\* JSON.parse(line.slice(6)) returns (it throws on a part of a delta).
parses(line) ==
  /\ Len(line) = 5
  /\ line[2] = "{"
  /\ line[3] \in {"text", "done", "error"}
  /\ line[5] = "}"

parsed(line) == [type |-> line[3], value |-> line[4]]

\* Whether a delta makes the read loop throw to the catch of handleSubmit:
\* the throw of an error delta is inside the try of JSON.parse, whose catch
\* takes it.
deltaThrows(data) == FALSE

\* The for loop over the lines of one read, from line k on; c holds
\* fullContent, citations and whether an error left the loop.
RECURSIVE readLinesFrom(_, _, _)
readLinesFrom(lines, k, c) ==
  IF k > Len(lines) \/ c.thrown # "" THEN c
  ELSE LET line == lines[k]
           data == parsed(line)
       IN  IF ~(startsWithData(line) /\ parses(line))
           THEN readLinesFrom(lines, k + 1, c)
           ELSE IF data.type = "text" /\ data.value # ""
           THEN readLinesFrom(lines, k + 1,
                              [c EXCEPT !.fullContent = Append(@, data.value)])
           ELSE IF data.type = "done"
           THEN readLinesFrom(lines, k + 1,
                              IF data.value # "" THEN [c EXCEPT !.citations = data.value]
                              ELSE c)
           ELSE IF data.type = "error" /\ deltaThrows(data)
           THEN [c EXCEPT !.thrown = IF data.value # "" THEN data.value
                                     ELSE "Stream error"]
           ELSE readLinesFrom(lines, k + 1, c)

\* catch (err) of handleSubmit, and finally.
clientCatch(c, errorMessage) ==
  [c EXCEPT !.pc = "done", !.error = errorMessage,
            !.content = <<"Sorry, I encountered an error: ", errorMessage>>,
            !.isStreaming = FALSE, !.isLoading = FALSE]

\* handleSubmit up to fetch: the user message and the empty assistant message
\* are added.
Submit ==
  /\ client.pc = "idle"
  /\ ~client.isLoading
  /\ client' = [ClientIdle EXCEPT !.pc = "fetching", !.isStreaming = TRUE,
                                  !.isLoading = TRUE]
  /\ UNCHANGED <<store, ret, hist, retr, chat, emb, chk, cit, cos, upl>>

\* fetch resolved with an event stream, whose deltas the server sends.
FetchStreams(deltas) ==
  /\ client.pc = "fetching"
  /\ client' = [client EXCEPT !.pc = "reading", !.sent = deltas,
                              !.bytes = encodeDeltas(deltas)]
  /\ UNCHANGED <<store, ret, hist, retr, chat, emb, chk, cit, cos, upl>>

\* fetch resolved with a response that is not ok: throw new Error(errorData.error).
FetchNotOk(errorMessage) ==
  /\ client.pc = "fetching"
  /\ client' = clientCatch(client, errorMessage)
  /\ UNCHANGED <<store, ret, hist, retr, chat, emb, chk, cit, cos, upl>>

\* Whether a read of the next n symbols ends inside a data line: after
\* "data: ", "{", the type or the value of a delta.
endsInLine(c, n) ==
  (Len(encodeDeltas(c.sent)) - Len(c.bytes) + n) % 7 \in 1..4

\* reader.read() gives the next n symbols of the body.
ReaderRead(n) ==
  /\ client.pc = "reading"
  /\ n \in 1..Len(client.bytes)
  /\ LET value == SubSeq(client.bytes, 1, n)
         c == readLinesFrom(splitLines(value, <<>>), 1,
                            [fullContent |-> client.fullContent,
                             citations |-> client.citations, thrown |-> ""])
         read == [client EXCEPT !.bytes = SubSeq(@, n + 1, Len(@)),
                                !.splitInLine = @ \/ endsInLine(client, n),
                                !.fullContent = c.fullContent,
                                !.citations = c.citations,
                                !.content = c.fullContent]
     IN  client' = IF c.thrown # "" THEN clientCatch(read, c.thrown) ELSE read
  /\ UNCHANGED <<store, ret, hist, retr, chat, emb, chk, cit, cos, upl>>

\* reader.read() gives done: the message is finalized.
ReaderDone ==
  /\ client.pc = "reading"
  /\ client.bytes = <<>>
  /\ client' = [client EXCEPT !.pc = "done", !.content = client.fullContent,
                              !.msgCitations = client.citations,
                              !.isStreaming = FALSE, !.isLoading = FALSE,
                              !.finalized = TRUE]
  /\ UNCHANGED <<store, ret, hist, retr, chat, emb, chk, cit, cos, upl>>

\* reader.read() rejects (the connection is lost).
ReaderFails ==
  /\ client.pc = "reading"
  /\ client.bytes # <<>>
  /\ client' = clientCatch(client, "network error")
  /\ UNCHANGED <<store, ret, hist, retr, chat, emb, chk, cit, cos, upl>>

\* ------------------------------------------------ the client specification
\* The streams of the chat route: text deltas and a done delta with the
\* citations, or text deltas and an error delta.
DeltaTexts == {"a", "b"}

ServerStreams ==
  {texts \o <<last>> :
     texts \in UNION {[1..n -> {TextDelta(t) : t \in DeltaTexts}] : n \in 0..MaxDeltas},
     last \in {DoneDelta("c1"), DoneDelta(""), ErrorDelta("boom")}}

NextClient ==
  \/ Submit
  \/ \E deltas \in ServerStreams : FetchStreams(deltas)
  \/ FetchNotOk("Document not found. Please upload a document first.")
  \/ \E n \in 1..(7 * (MaxDeltas + 1)) : ReaderRead(n)
  \/ ReaderDone
  \/ ReaderFails

SpecClient == Init /\ [][NextClient]_vars

\* ------------------------------------------------ properties of the client
\* The texts of the text deltas the server sent, in the order sent.
RECURSIVE TextsOf(_)
TextsOf(deltas) ==
  IF deltas = <<>> THEN <<>>
  ELSE (IF Head(deltas).type = "text" THEN <<Head(deltas).value>> ELSE <<>>)
         \o TextsOf(Tail(deltas))

LastSent == client.sent[Len(client.sent)]

\* The whole stream of a request that the server ended with a delta of the
\* type has been read, and handleSubmit is over.
ReadToTheEnd(type) ==
  /\ client.pc = "done"
  /\ client.sent # <<>>
  /\ client.bytes = <<>>
  /\ LastSent.type = type

\* C27: however the reads divide the stream, when the stream that ends with
\* a done delta has been read the content of the assistant message is the
\* texts of all text deltas sent, in order, and its citations are those of
\* the done delta.
C27_ContentIsAllTextSent ==
  ReadToTheEnd("done") =>
    /\ client.content = TextsOf(client.sent)
    /\ client.msgCitations = LastSent.value

\* What the code does keep: the same when no read ends inside a data line.
ContentOfWholeLines ==
  (ReadToTheEnd("done") /\ ~client.splitInLine) =>
    /\ client.content = TextsOf(client.sent)
    /\ client.msgCitations = LastSent.value

\* C28: when the stream read holds an error delta the request ends in the
\* error outcome: the banner has the message of the delta, the assistant
\* message has the error text, nothing is streaming or loading, and the
\* message has not been finalized as an answer.
C28_ErrorDeltaEndsInError ==
  ReadToTheEnd("error") =>
    /\ client.error = LastSent.value
    /\ client.content = <<"Sorry, I encountered an error: ", LastSent.value>>
    /\ ~client.isStreaming
    /\ ~client.isLoading
    /\ ~client.finalized

\* What the code does keep: at the end nothing is streaming or loading; a
\* stream read to its end is finalized with no banner, whatever its last
\* delta, and the content is then texts the server sent.
ClientEndsIdle ==
  client.pc = "done" =>
    /\ ~client.isStreaming
    /\ ~client.isLoading
    /\ client.bytes = <<>> /\ client.sent # <<>> =>
         /\ client.finalized
         /\ client.error = ""
         /\ \A k \in 1..Len(client.content) : client.content[k] \in DeltaTexts

\* ------------------------------------------------------- the upload route
\* app/api/upload/route.ts POST.  A request is followed from one await to
\* the next; the store is the memory store.
MAX_FILE_SIZE == 20 * 1024 * 1024

\* The uploaded form: whether it has a File under 'file', its MIME type, its
\* size, the first bytes of its contents, and the pages pdf.ts extracts
\* from it.
FormFile(isFile, type, size, header, pages) ==
  [isFile |-> isFile, type |-> type, size |-> size, header |-> header, pages |-> pages]

\* pdf.ts validatePDFBuffer: at least five bytes, the first five '%PDF-'.
validatePDFBuffer(file) == file.size >= 5 /\ file.header = "%PDF-"

\* The message of the 400 the validations before parsePDF answer with ("":
\* they all pass).
validationError(file) ==
  IF ~file.isFile THEN "No file provided. Please upload a PDF file."
  ELSE IF file.type # "application/pdf"
  THEN "Invalid file type. Only PDF files are allowed."
  ELSE IF file.size > MAX_FILE_SIZE THEN "File too large. Maximum size is 20MB."
  ELSE IF ~validatePDFBuffer(file)
  THEN "Invalid PDF file. The file appears to be corrupted."
  ELSE ""

\* pdf.ts parsePDF rejects when pdf2json fails or when no page has text.
parsePDFRejects(file, readable) == ~readable \/ Len(file.pages) = 0

\* NextResponse.json(body, {status}): the request is over.
respond(u, status, error) == [u EXCEPT !.pc = "done", !.status = status, !.error = error]

\* POST up to `await parsePDF(buffer)`: the form is read and the file is
\* validated.  formData() failing is caught by the handler's catch.
UploadPost(file, formReads) ==
  /\ upl.pc \in {"idle", "done"}
  /\ LET u == [UplIdle EXCEPT !.file = file, !.before = store]
     IN  upl' = IF ~formReads THEN respond(u, 500, "Failed to process document: ")
                ELSE IF validationError(file) # ""
                THEN respond(u, 400, validationError(file))
                ELSE [u EXCEPT !.pc = "parsing", !.steps = <<"validation">>]
  /\ UNCHANGED <<store, ret, hist, retr, chat, emb, chk, cit, cos, client>>

\* From parsePDF settling to `await embedTexts(chunkTexts)`: the pages are
\* checked, the docId is drawn and the pages are chunked.  A chunkPages that
\* does not return leaves the request where it is.
UploadParsed(readable, docId, collide) ==
  /\ upl.pc = "parsing"
  /\ LET pages == upl.file.pages
         result == chunkPages(pages, docId, [chunkSize |-> 1200, chunkOverlap |-> 180],
                              IdDraw(collide))
     IN  upl' =
           IF parsePDFRejects(upl.file, readable)
           THEN respond(upl, 500, "Failed to process document: ")
           ELSE IF Len(pages) = 0
           THEN respond(upl, 400, "Could not extract text from PDF.")
           ELSE IF result.diverges
           THEN [upl EXCEPT !.pc = "chunking", !.pages = pages, !.docId = docId,
                            !.steps = @ \o <<"parsing">>]
           ELSE IF Len(result.chunks) = 0
           THEN respond([upl EXCEPT !.pages = pages, !.docId = docId,
                                    !.steps = @ \o <<"parsing">>],
                        400, "Could not create chunks from PDF.")
           ELSE [upl EXCEPT !.pc = "embedding", !.pages = pages, !.docId = docId,
                            !.chunks = result.chunks,
                            !.steps = @ \o <<"parsing", "chunking">>]
  /\ UNCHANGED <<store, ret, hist, retr, chat, emb, chk, cit, cos, client>>

\* Mutant: the chunks are stored whether or not embedTexts resolved.
storedByUpload_eager(st, docId, chunks, vectors, embeds) ==
  upsert(st, docId, chunks, vectors)

\* The store after lines 100-107: a rejected embedTexts, or an upsert that
\* throws, goes to the catch with nothing stored.
storedByUpload(st, docId, chunks, vectors, embeds) ==
  IF ~embeds \/ upsertThrows(chunks, vectors) THEN st
  ELSE upsert(st, docId, chunks, vectors)

\* From embedTexts settling to `await vectorStore.upsert(...)`: embedTexts
\* resolves to one embedding per text or rejects; upsert stores before it
\* returns its promise.
UploadEmbedded(embeds) ==
  /\ upl.pc = "embedding"
  /\ LET vectors == [k \in 1..Len(upl.chunks) |-> E1]
         stored == storedByUpload(store, upl.docId, upl.chunks, vectors, embeds)
     IN  /\ store' = stored
         /\ hist' = IF ~embeds \/ upsertThrows(upl.chunks, vectors)
                    THEN hist
                    ELSE [hist EXCEPT ![upl.docId] =
                                 Upserted(store, upl.docId, upl.chunks, vectors)]
         /\ upl' = IF ~embeds
                   THEN respond(upl, 500, "Failed to process document: ")
                   ELSE IF upsertThrows(upl.chunks, vectors)
                   THEN respond([upl EXCEPT !.vectors = vectors,
                                           !.steps = @ \o <<"embedding">>],
                                500, "Failed to process document: ")
                   ELSE [upl EXCEPT !.pc = "stored", !.vectors = vectors,
                                    !.steps = @ \o <<"embedding", "upsert">>]
  /\ UNCHANGED <<ret, retr, chat, emb, chk, cit, cos, client>>

\* After upsert: NextResponse.json({docId, chunkCount: chunks.length}).
UploadResponds ==
  /\ upl.pc = "stored"
  /\ upl' = [respond(upl, 200, "") EXCEPT !.chunkCount = Len(upl.chunks)]
  /\ UNCHANGED <<store, ret, hist, retr, chat, emb, chk, cit, cos, client>>

\* ------------------------------------------------ the upload specification
\* Uploads one after the other, into the store the earlier ones left.
OnePage == <<"a", ".", " ", "a">>
GoodFile(pages) == FormFile(TRUE, "application/pdf", 25, "%PDF-", pages)

UploadFiles ==
  {GoodFile(PagesOf(OnePage, FALSE)), GoodFile(PagesOf(OnePage, TRUE)),
   GoodFile(PagesOf(LongRun, FALSE)), GoodFile(<<>>),
   FormFile(FALSE, "", 0, "", <<>>),
   FormFile(TRUE, "text/plain", 25, "%PDF-", PagesOf(OnePage, FALSE)),
   FormFile(TRUE, "application/pdf", MAX_FILE_SIZE + 1, "%PDF-", PagesOf(OnePage, FALSE)),
   FormFile(TRUE, "application/pdf", 4, "%PDF", PagesOf(OnePage, FALSE)),
   FormFile(TRUE, "application/pdf", 25, "<html", PagesOf(OnePage, FALSE))}

NextUpload ==
  \/ \E file \in UploadFiles, formReads \in BOOLEAN : UploadPost(file, formReads)
  \/ \E readable \in BOOLEAN, docId \in DocIds, collide \in BOOLEAN :
        UploadParsed(readable, docId, collide)
  \/ \E embeds \in BOOLEAN : UploadEmbedded(embeds)
  \/ UploadResponds

SpecUpload == Init /\ [][NextUpload]_vars

\* ------------------------------------------------ properties of the upload
AllSteps == <<"validation", "parsing", "chunking", "embedding", "upsert">>

\* The request has stored: upsert has run.
UploadStored == upl.pc = "stored" \/ (upl.pc = "done" /\ upl.status = 200)

\* C29: an upload changes the store only as its last step.  Until then, and
\* when it fails, the store is what it was when the request came, so no
\* document has become visible; it stores only after validation, parsing,
\* chunking and embedding all succeeded, the new document is then visible,
\* and the entries stored for its docId are as many as the chunkCount
\* answered.
C29_UploadStoresLast ==
  /\ ~UploadStored => store = upl.before
  /\ UploadStored =>
       /\ upl.steps = AllSteps
       /\ Len(upl.vectors) = Len(upl.chunks)
       /\ store = upsert(upl.before, upl.docId, upl.chunks, upl.vectors)
       /\ hasDoc(store, upl.docId)
       /\ \A d \in DocIds \ {upl.docId} : hasDoc(store, d) <=> hasDoc(upl.before, d)
  /\ (upl.pc = "done" /\ upl.status = 200) =>
       /\ upl.chunkCount > 0
       /\ Len(store[upl.docId].vectors) = upl.chunkCount

\* A successful upload of two chunks under a docId that an earlier upload of
\* one chunk had stored.
C29_Witness ==
  /\ upl.pc = "done" /\ upl.status = 200
  /\ upl.chunkCount = 2
  /\ hasDoc(upl.before, upl.docId)
  /\ Len(upl.before[upl.docId].vectors) = 1

\* A failed upload into a store that holds a document.
UploadFailedWitness ==
  /\ upl.pc = "done" /\ upl.status = 500
  /\ upl.steps = <<"validation", "parsing", "chunking">>
  /\ store # EmptyStore

====
